---- MODULE Spec2Model ----
(***************************************************************************)
(* Model of the citation engine (src/citations.py).                        *)
(*                                                                         *)
(* Strings that the engine searches, rewrites or scans are sequences of    *)
(* one-character strings.  Timestamps and access dates are opaque tokens   *)
(* whose parse is given by a table.  Credibility scores are integers in    *)
(* hundredths (0.95 is 95).                                                *)
(***************************************************************************)
EXTENDS Integers, Sequences, FiniteSets, TLC

VARIABLES
    files,    \* the findings_*.json files present in <workspace>/findings
    style,    \* CitationEngine.style
    call,     \* the latest apply_citations call: arguments, locals, result
    report,   \* the latest validate_citations call: argument and result
    extracted, \* the latest extract_all_sources call: glob order and result
    ctor,     \* CitationEngine(...): the style argument and CITATION_STYLE
    formatted, \* the _format_reference calls made: style, arguments and result
    semantic, \* the latest apply_semantic_citations call
    status,   \* the latest get_research_status call
    phase,    \* the latest _execute_citation_phase call
    wait,     \* the _await_findings call in progress, and the clock
    run       \* the research() call in progress

\* the state of the citation engine's formatter and matcher, and of ResearchSystem
formatVars == <<ctor, formatted, semantic>>
systemVars == <<status, phase, wait, run>>

vars == <<files, style, call, report, extracted, formatVars, systemVars>>

(***************************************************************************)
(* Bounds of the model.                                                    *)
(***************************************************************************)
MaxFiles == 2     \* findings files in the workspace
MaxFrags == 2     \* fragments a synthesis text is made of
MaxBatches == 3   \* findings files in the workspace when only the loader runs
MaxPieces == 3    \* fragments of a text that is handed to the validator as is

(***************************************************************************)
(* Program constants.                                                      *)
(***************************************************************************)
MinQuoteLen == 10          \* len(quote.strip()) < 10
QuoteLogLen == 50          \* quote[:50] + "..." in CitationMatch
DefaultCredibility == 50   \* source_data.get("credibility_score", 0.5)
DefaultMinCredibility == 50 \* min_credibility: float = 0.5

(***************************************************************************)
(* Character-level helpers (Python str operations).                        *)
(***************************************************************************)
Digits == <<"0","1","2","3","4","5","6","7","8","9">>
DigitChars == {Digits[i] : i \in 1..10}
Whitespace == {" ", "\n", "\t"}
Terminators == {".", "!", "?"}

DigitVal(c) == (CHOOSE i \in 1..10 : Digits[i] = c) - 1

RECURSIVE NumToStr(_)
\* str(n) for n >= 0, as the f-string f"[{citation_counter}]" renders it
NumToStr(n) ==
    IF n < 10 THEN <<Digits[n + 1]>>
    ELSE NumToStr(n \div 10) \o <<Digits[(n % 10) + 1]>>

RECURSIVE StrToNum(_)
\* int(s) for a non-empty string of decimal digits
StrToNum(s) ==
    IF Len(s) = 0 THEN 0
    ELSE 10 * StrToNum(SubSeq(s, 1, Len(s) - 1)) + DigitVal(s[Len(s)])

\* s.strip()
Strip(s) ==
    LET keep == {i \in 1..Len(s) : s[i] \notin Whitespace}
    IN  IF keep = {} THEN <<>>
        ELSE SubSeq(s, CHOOSE i \in keep : \A j \in keep : i <= j,
                       CHOOSE i \in keep : \A j \in keep : j <= i)

\* the offsets (1-based) at which q occurs in t
Occurrences(q, t) ==
    {i \in 1..(Len(t) - Len(q) + 1) : SubSeq(t, i, i + Len(q) - 1) = q}

\* q in t
Contains(t, q) == Len(q) = 0 \/ Occurrences(q, t) /= {}

\* t.find(q), 1-based; 0 when q does not occur
Find(t, q) ==
    LET at == Occurrences(q, t)
    IN  IF Len(q) = 0 THEN 1
        ELSE IF at = {} THEN 0
        ELSE CHOOSE i \in at : \A j \in at : i <= j

\* a sequence of the elements of a set of integers, ascending
Ascending(S) ==
    [n \in 1..Cardinality(S) |-> CHOOSE x \in S : Cardinality({y \in S : y < x}) = n - 1]

RECURSIVE Join(_, _)
\* sep.join(parts)
Join(parts, sep) ==
    IF Len(parts) = 0 THEN <<>>
    ELSE IF Len(parts) = 1 THEN parts[1]
    ELSE parts[1] \o sep \o Join(Tail(parts), sep)

RECURSIVE Concat(_)
Concat(parts) == IF Len(parts) = 0 THEN <<>> ELSE parts[1] \o Concat(Tail(parts))

\* all orderings of a finite set, as sequences
Orderings(S) ==
    {s \in [1..Cardinality(S) -> S] :
        \A i, j \in 1..Cardinality(S) : i /= j => s[i] /= s[j]}

\* the elements of a sequence
Range(s) == {s[i] : i \in 1..Len(s)}

\* s.split(ch): the pieces between the occurrences of the character ch
SplitOn(s, ch) ==
    LET cuts == {i \in 1..Len(s) : s[i] = ch}
        bounds == {0} \cup cuts \cup {Len(s) + 1}
        next(i) == CHOOSE j \in bounds : j > i /\ \A k \in bounds : k > i => j <= k
        starts == <<0>> \o [n \in 1..Cardinality(cuts) |->
                      CHOOSE i \in cuts : Cardinality({c \in cuts : c < i}) = n - 1]
    IN  [n \in 1..Len(starts) |-> SubSeq(s, starts[n] + 1, next(starts[n]) - 1)]

(***************************************************************************)
(* Input data: strings the findings files and the synthesis texts hold.    *)
(***************************************************************************)
UrlA == <<"h","t","t","p",":","/","/","a",".","i","o","/","1">>
UrlB == <<"h","t","t","p",":","/","/","b",".","i","o","/","2">>
UrlC == <<"h","t","t","p",":","/","/","c",".","i","o","/","3">>
UrlD == <<"h","t","t","p",":","/","/","d",".","i","o","/","4">>
UrlE == <<"h","t","t","p",":","/","/","e",".","i","o","/","5">>
UrlF == <<"h","t","t","p",":","/","/","f",".","i","o","/","6">>

\* a quote of the first sentence of the synthesis
QuoteOne == <<"a","b","c","d","e","f","g","h","i","j">>
\* a quote of the second sentence
QuoteTwo == <<"k","l","m","n","o","p","q","r","s","t">>
\* a quote that spans the end of QuoteOne, a marker " [1]" and a full stop
QuoteCross == <<"f","g","h","i","j"," ","[","1","]",".">>
\* 8 characters
QuoteShort == <<"a","b","c","d","e","f","g","h">>
\* 10 characters, 9 after strip()
QuotePadded == <<" ","a","b","c","d","e","f","g","h","i">>

\* the sentences of a synthesis, and a marker that its author wrote
SentenceOne == QuoteOne \o <<".", " ">>
SentenceTwo == QuoteTwo \o <<".", " ">>
OldMarker == <<"[","7","]"," ">>

TsGood == "2024-01-15T10:30:00Z"
TsBad == "last week"
AccessGood == "2024-01-20"
AccessNone == ""
\* a date with a time of day, and a string that is no date
AccessIso == "2024-01-20T08:15:00"
AccessBad == "yesterday"

\* hashlib.md5(url.encode()).hexdigest()[:8], for the locators above
Md5Key(url) ==
    CASE url = UrlA -> <<"3","6","0","b","c","3","4","d">>
      [] url = UrlB -> <<"d","1","a","9","3","0","e","c">>
      [] url = UrlC -> <<"2","3","3","6","6","a","2","9">>
      [] url = UrlD -> <<"9","5","5","1","7","e","c","f">>
      [] url = UrlE -> <<"0","0","0","3","5","a","5","8">>
      [] url = UrlF -> <<"8","3","d","2","6","3","6","c">>

AllKeys == {"url", "title", "timestamp", "relevant_quotes", "credibility_score",
            "source_type", "access_date"}

\* one element of a findings file's "sources" list; keys are the fields present
Entry(keys, url, title, ts, quotes, cred, kind, access) ==
    [keys |-> keys, url |-> url, title |-> title, timestamp |-> ts,
     relevant_quotes |-> quotes, credibility_score |-> cred,
     source_type |-> kind, access_date |-> access]

EntryA == Entry(AllKeys, UrlA, <<"T","A">>, TsGood, <<QuoteOne>>, 95,
                "peer_reviewed", AccessGood)
EntryD == Entry(AllKeys \ {"access_date"}, UrlD, <<"T","D">>, TsGood,
                <<QuoteShort, QuotePadded>>, 70, "blog", AccessNone)
EntryB == Entry(AllKeys \ {"source_type"}, UrlB, <<"T","B">>, TsBad,
                <<QuoteCross, QuoteTwo>>, 95, "unknown", AccessGood)
\* a second finding about the source of EntryA
EntryA2 == Entry(AllKeys, UrlA, <<"T","X">>, TsGood, <<QuoteTwo, QuoteOne>>, 60,
                 "news", AccessNone)
EntryC == Entry(AllKeys, UrlC, <<"T","C">>, TsGood, <<QuoteOne>>, 30,
                "blog", AccessNone)
EntryE == Entry({"url", "title", "timestamp", "relevant_quotes"}, UrlE, <<"T","E">>,
                TsGood, <<QuoteTwo>>, DefaultCredibility, "unknown", AccessNone)
\* an entry without a title
EntryNoTitle == Entry(AllKeys \ {"title"}, UrlC, <<>>, TsGood, <<QuoteOne>>, 90,
                      "news", AccessNone)

\* a findings file: kind is "object" (a JSON object), "invalid_json" (not JSON)
\* or "not_object" (JSON, but a list or a scalar)
Batch(name, kind, sources) == [name |-> name, kind |-> kind, sources |-> sources]

BatchPool ==
    { Batch("findings_1.json", "object", <<EntryA, EntryD>>),
      Batch("findings_2.json", "object", <<EntryB, EntryE, EntryNoTitle>>),
      Batch("findings_3.json", "object", <<EntryA2, EntryC>>) }

\* an entry with a locator and a title and nothing else
EntryMinimal == Entry({"url", "title"}, UrlF, <<"T","F">>, TsGood, <<>>,
                      DefaultCredibility, "unknown", AccessNone)

\* the files of BatchPool, a file that is not JSON, a file that holds a JSON
\* list, and a file whose one entry has the locator and the title only
LoaderPool ==
    BatchPool \cup
    { Batch("findings_4.json", "invalid_json", <<>>),
      Batch("findings_5.json", "not_object", <<>>),
      Batch("findings_6.json", "object", <<EntryMinimal>>) }

Fragments == {SentenceOne, SentenceTwo, OldMarker}

\* the synthesis texts: up to MaxFrags fragments in a row
Texts == {Concat(fs) : fs \in UNION {[1..n -> Fragments] : n \in 0..MaxFrags}}

MinCredibilities == {DefaultMinCredibility, 80}
Styles == {"apa", "chicago", "generic"}

(***************************************************************************)
(* extract_all_sources: the source map, as the list of Source objects in   *)
(* dict insertion order.                                                   *)
(***************************************************************************)
\* source_data.get(key, default)
Get(e, key, default) == IF key \in e.keys THEN e[key] ELSE default

\* Source(...) built from a new entry
NewSource(e) ==
    [source_id |-> Md5Key(e.url),
     url |-> e.url,
     title |-> e.title,
     timestamp |-> e.timestamp,
     relevant_quotes |-> Get(e, "relevant_quotes", <<>>),
     credibility_score |-> Get(e, "credibility_score", DefaultCredibility),
     source_type |-> Get(e, "source_type", "unknown"),
     access_date |-> Get(e, "access_date", "")]

\* index of the source with this id in the map, 0 when absent
IndexOf(sources, id) ==
    IF \E i \in 1..Len(sources) : sources[i].source_id = id
    THEN CHOOSE i \in 1..Len(sources) : sources[i].source_id = id
    ELSE 0

\* list(existing_quotes | new_quotes): a set is iterated in an order that the
\* string hashes of the run decide, so every ordering is a possible result
MergeQuotes(existing, new) == Orderings(Range(existing) \cup Range(new))

\* a merge in which the later entry's title and credibility replace the stored ones
MergeOutcomesLastWins(sources, i, e) ==
    {[sources EXCEPT ![i].relevant_quotes = qs,
                     ![i].title = Get(e, "title", @),
                     ![i].credibility_score = Get(e, "credibility_score", @)] :
        qs \in MergeQuotes(sources[i].relevant_quotes, Get(e, "relevant_quotes", <<>>))}

\* the maps that merging entry e into the source at index i can give
MergeOutcomes(sources, i, e) ==
    {[sources EXCEPT ![i].relevant_quotes = qs] :
        qs \in MergeQuotes(sources[i].relevant_quotes, Get(e, "relevant_quotes", <<>>))}

RECURSIVE LoadEntries(_, _, _)
\* the loop over data.get("sources", []) from entry i on; a KeyError ends it
\* and leaves the map as it is at that point
LoadEntries(sources, entries, i) ==
    IF i > Len(entries) THEN {sources}
    ELSE LET e == entries[i]
         IN  IF "url" \notin e.keys THEN {sources}
             ELSE IF IndexOf(sources, Md5Key(e.url)) /= 0
             THEN UNION {LoadEntries(m, entries, i + 1) :
                            m \in MergeOutcomes(sources, IndexOf(sources, Md5Key(e.url)), e)}
             ELSE IF ~({"title", "timestamp"} \subseteq e.keys) THEN {sources}
             ELSE LoadEntries(Append(sources, NewSource(e)), entries, i + 1)

RECURSIVE LoadBatches(_, _, _)
\* the loop over the findings files, read in the order `order`; the results
\* are [raised, sources]: raised when an exception leaves extract_all_sources
LoadBatches(sources, order, i) ==
    IF i > Len(order) THEN {[raised |-> FALSE, sources |-> sources]}
    ELSE CASE order[i].kind = "invalid_json" -> LoadBatches(sources, order, i + 1)
           [] order[i].kind = "not_object" -> {[raised |-> TRUE, sources |-> <<>>]}
           [] OTHER ->
                UNION {LoadBatches(m, order, i + 1) :
                          m \in LoadEntries(sources, order[i].sources, 1)}

\* extract_all_sources(), the files being globbed in the order `order`
ExtractAllSources(order) == LoadBatches(<<>>, order, 1)

(***************************************************************************)
(* Reference formatting.                                                   *)
(***************************************************************************)
MonthNames ==
    <<<<"J","a","n","u","a","r","y">>, <<"F","e","b","r","u","a","r","y">>,
      <<"M","a","r","c","h">>, <<"A","p","r","i","l">>, <<"M","a","y">>,
      <<"J","u","n","e">>, <<"J","u","l","y">>, <<"A","u","g","u","s","t">>,
      <<"S","e","p","t","e","m","b","e","r">>, <<"O","c","t","o","b","e","r">>,
      <<"N","o","v","e","m","b","e","r">>, <<"D","e","c","e","m","b","e","r">>>>

NoDate == <<"n",".","d",".">>
NoValue == <<>>   \* None, or a string that a truth test drops

\* datetime.fromisoformat(s.replace('Z', '+00:00')) for the date strings above:
\* <<year, month, day>>, or <<>> when it raises
FromIsoformat(s) ==
    CASE s = TsGood -> <<2024, 1, 15>>
      [] s = AccessGood -> <<2024, 1, 20>>
      [] s = AccessIso -> <<2024, 1, 20>>
      [] OTHER -> <<>>

\* datetime.strptime(s, '%Y-%m-%d')
Strptime(s) ==
    CASE s = AccessGood -> <<2024, 1, 20>>
      [] OTHER -> <<>>

\* _site_name: url.split('/')[2], None when there is no such piece
SiteName(source) ==
    LET pieces == SplitOn(source.url, "/")
    IN  IF Len(pieces) >= 3 THEN pieces[3] ELSE NoValue

\* _fmt_date
FmtDate(iso, order) ==
    LET dt == FromIsoformat(iso)
    IN  IF dt = <<>> THEN NoDate
        ELSE IF order = "ymd"
        THEN NumToStr(dt[1]) \o <<",", " ">> \o MonthNames[dt[2]] \o <<" ">> \o NumToStr(dt[3])
        ELSE MonthNames[dt[2]] \o <<" ">> \o NumToStr(dt[3]) \o <<",", " ">> \o NumToStr(dt[1])

\* a buggy helper: a date that does not parse is rendered as "n.d."
FmtAccessedOrNoDate(source, st) ==
    IF source.access_date = "" THEN NoValue
    ELSE <<"A","c","c","e","s","s","e","d"," ">> \o NoDate

\* _fmt_accessed
FmtAccessed(source, st) ==
    LET ad == IF FromIsoformat(source.access_date) /= <<>>
              THEN FromIsoformat(source.access_date)
              ELSE Strptime(source.access_date)
    IN  IF source.access_date = "" \/ ad = <<>> THEN NoValue
        ELSE IF st \in {"apa", "chicago"}
        THEN <<"A","c","c","e","s","s","e","d"," ">> \o MonthNames[ad[2]] \o <<" ">>
                \o NumToStr(ad[3]) \o <<",", " ">> \o NumToStr(ad[1])
        ELSE NoValue

\* " ".join(p for p in parts if p)
JoinParts(parts) == Join(SelectSeq(parts, LAMBDA p : p /= NoValue), <<" ">>)

\* f"[{citation_num}]"
Bracketed(n) == <<"[">> \o NumToStr(n) \o <<"]">>

FormatReferenceApa(source, n) ==
    LET site == SiteName(source)
    IN  JoinParts(<<
            Bracketed(n) \o <<" ">> \o source.title \o <<".", " ", "(">>
                \o FmtDate(source.timestamp, "ymd") \o <<")", ".">>,
            IF site /= NoValue THEN site \o <<".">> ELSE NoValue,
            source.url \o <<".">>,
            FmtAccessed(source, "apa") >>)

\* a buggy layout: the date before the site
FormatReferenceChicagoDateFirst(source, n) ==
    LET site == SiteName(source)
    IN  JoinParts(<<
            Bracketed(n) \o <<" ">> \o source.title \o <<".">>,
            FmtDate(source.timestamp, "mdy") \o <<".">>,
            IF site /= NoValue THEN site \o <<".">> ELSE NoValue,
            source.url \o <<".">>,
            FmtAccessed(source, "chicago") >>)

FormatReferenceChicago(source, n) ==
    LET site == SiteName(source)
    IN  JoinParts(<<
            Bracketed(n) \o <<" ">> \o source.title \o <<".">>,
            IF site /= NoValue THEN site \o <<".">> ELSE NoValue,
            FmtDate(source.timestamp, "mdy") \o <<".">>,
            source.url \o <<".">>,
            FmtAccessed(source, "chicago") >>)

FormatGenericReference(source, n) ==
    LET dt == FromIsoformat(source.timestamp)
        year == IF dt = <<>> THEN NoDate ELSE NumToStr(dt[1])
    IN  Bracketed(n) \o <<" ">> \o source.title \o <<" ", "(">> \o year
            \o <<")", ".", " ">> \o source.url

\* a buggy formatter: the reference line does not start with its number
FormatReferenceUnnumbered(st, source, n) ==
    source.title \o <<" ">> \o Bracketed(n) \o <<" ">> \o source.url

\* _format_reference
FormatReference(st, source, n) ==
    IF st = "apa" THEN FormatReferenceApa(source, n)
    ELSE IF st = "chicago" THEN FormatReferenceChicago(source, n)
    ELSE FormatGenericReference(source, n)

(***************************************************************************)
(* apply_citations.  cited_sources is the dict as the list of its items    *)
(* [source_id, number] in insertion order.                                 *)
(***************************************************************************)
References == <<"\n","\n","#","#"," ","R","e","f","e","r","e","n","c","e","s","\n","\n">>

\* dict lookup: the number of a cited source, 0 when absent
NumberOf(cited, id) ==
    IF \E i \in 1..Len(cited) : cited[i].source_id = id
    THEN (CHOOSE c \in Range(cited) : c.source_id = id).number
    ELSE 0

\* cited_sources[id] = n
DictSet(cited, id, n) ==
    IF NumberOf(cited, id) = 0 THEN Append(cited, [source_id |-> id, number |-> n])
    ELSE [i \in 1..Len(cited) |->
            IF cited[i].source_id = id THEN [source_id |-> id, number |-> n] ELSE cited[i]]

\* filtered_sources
FilterSources(sources, min_credibility) ==
    SelectSeq(sources, LAMBDA src : src.credibility_score >= min_credibility)

\* a buggy sort: ascending credibility
SortedSourcesAscending(filtered) ==
    LET rank(i) == 1 + Cardinality({j \in 1..Len(filtered) :
                        \/ filtered[j].credibility_score < filtered[i].credibility_score
                        \/ /\ filtered[j].credibility_score = filtered[i].credibility_score
                           /\ j < i})
    IN  [n \in 1..Len(filtered) |-> filtered[CHOOSE i \in 1..Len(filtered) : rank(i) = n]]

\* sorted(filtered_sources.items(), key=credibility_score, reverse=True): a
\* stable sort, equal scores keep their dict order
SortedSources(filtered) ==
    LET rank(i) == 1 + Cardinality({j \in 1..Len(filtered) :
                        \/ filtered[j].credibility_score > filtered[i].credibility_score
                        \/ /\ filtered[j].credibility_score = filtered[i].credibility_score
                           /\ j < i})
    IN  [n \in 1..Len(filtered) |-> filtered[CHOOSE i \in 1..Len(filtered) : rank(i) = n]]

\* a buggy test: the untrimmed length
QuoteLongEnoughUntrimmed(quote) == Len(quote) >= MinQuoteLen

\* not (len(quote.strip()) < 10)
QuoteLongEnough(quote) == Len(Strip(quote)) >= MinQuoteLen

\* a buggy replace: every occurrence (the count argument forgotten)
RECURSIVE ReplaceAll(_, _, _)
ReplaceAll(t, old, new) ==
    LET p == Find(t, old)
    IN  IF p = 0 \/ Len(old) = 0 THEN t
        ELSE SubSeq(t, 1, p - 1) \o new
                \o ReplaceAll(SubSeq(t, p + Len(old), Len(t)), old, new)

\* t.replace(old, new, 1)
ReplaceFirst(t, old, new) ==
    LET p == Find(t, old)
    IN  IF p = 0 THEN t
        ELSE SubSeq(t, 1, p - 1) \o new \o SubSeq(t, p + Len(old), Len(t))

\* the body of the `if quote in modified_text ...` branch
Cite(st, source, quote) ==
    LET modified == ReplaceFirst(st.modified_text, quote,
                        quote \o <<" ">> \o Bracketed(st.citation_counter))
    IN  [modified_text |-> modified,
         cited_sources |-> DictSet(st.cited_sources, source.source_id, st.citation_counter),
         citation_counter |-> st.citation_counter + 1,
         citations_added |-> Append(st.citations_added,
            [source_id |-> source.source_id,
             quote |-> IF Len(quote) > QuoteLogLen
                       THEN SubSeq(quote, 1, QuoteLogLen) \o <<".", ".", ".">>
                       ELSE quote,
             position |-> Find(modified, quote) - 1,
             citation_number |-> st.citation_counter])]

\* a buggy loop: no `not in cited_sources` test and no break
RECURSIVE ForQuotesNoBreak(_, _, _)
ForQuotesNoBreak(st, source, i) ==
    IF i > Len(source.relevant_quotes) THEN st
    ELSE LET quote == source.relevant_quotes[i]
         IN  IF ~QuoteLongEnough(quote) THEN ForQuotesNoBreak(st, source, i + 1)
             ELSE IF Contains(st.modified_text, quote)
             THEN ForQuotesNoBreak(Cite(st, source, quote), source, i + 1)
             ELSE ForQuotesNoBreak(st, source, i + 1)

RECURSIVE ForQuotes(_, _, _)
\* for quote in source.relevant_quotes, from quote i on
ForQuotes(st, source, i) ==
    IF i > Len(source.relevant_quotes) THEN st
    ELSE LET quote == source.relevant_quotes[i]
         IN  IF ~QuoteLongEnough(quote) THEN ForQuotes(st, source, i + 1)
             ELSE IF /\ Contains(st.modified_text, quote)
                     /\ NumberOf(st.cited_sources, source.source_id) = 0
             THEN Cite(st, source, quote)
             ELSE ForQuotes(st, source, i + 1)

RECURSIVE ForSources(_, _, _)
\* for source_id, source in sorted_sources, from source i on
ForSources(st, sorted, i) ==
    IF i > Len(sorted) THEN st
    ELSE ForSources(ForQuotes(st, sorted[i], 1), sorted, i + 1)

\* sorted(cited_sources.items(), key=lambda x: x[1])
SortedCitations(cited) ==
    LET rank(i) == 1 + Cardinality({j \in 1..Len(cited) :
                        \/ cited[j].number < cited[i].number
                        \/ cited[j].number = cited[i].number /\ j < i})
    IN  [n \in 1..Len(cited) |-> cited[CHOOSE i \in 1..Len(cited) : rank(i) = n]]

\* a buggy reference list: one line per eligible source, cited or not
ReferenceLinesOfAll(st, sources, cited) ==
    [n \in 1..Len(sources) |-> FormatReference(st, sources[n], n)]

\* the list `references` of _generate_references
ReferenceLines(st, sources, cited) ==
    LET sorted == SortedCitations(cited)
    IN  [n \in 1..Len(sorted) |->
            FormatReference(st, sources[IndexOf(sources, sorted[n].source_id)],
                            sorted[n].number)]

\* _generate_references
GenerateReferences(st, sources, cited) ==
    Join(ReferenceLines(st, sources, cited), <<"\n">>)

\* a buggy ending: the reference section is appended whether or not a source
\* was cited
FinishAlways(st, modified, filtered, cited) ==
    modified \o References \o GenerateReferences(st, filtered, cited)

\* lines 205-214: the reference section is appended when a source was cited
Finish(st, modified, filtered, cited) ==
    IF cited /= <<>>
    THEN modified \o References \o GenerateReferences(st, filtered, cited)
    ELSE modified

\* apply_citations(text, min_credibility), extract_all_sources() having
\* returned `sources`; the record holds the arguments, the locals and the
\* returned string `out`
ApplyCitations(st, text, min_credibility, sources) ==
    LET filtered == FilterSources(sources, min_credibility)
        start == [modified_text |-> text, cited_sources |-> <<>>,
                  citation_counter |-> 1, citations_added |-> <<>>]
        end == IF filtered = <<>> THEN start
               ELSE ForSources(start, SortedSources(filtered), 1)
    IN  [status |-> "returned",
         text |-> text,
         min_credibility |-> min_credibility,
         sources |-> sources,
         modified_text |-> end.modified_text,
         cited_sources |-> end.cited_sources,
         citations_added |-> end.citations_added,
         out |-> IF filtered = <<>> THEN text
                 ELSE Finish(st, end.modified_text, filtered, end.cited_sources)]

(***************************************************************************)
(* apply_semantic_citations and _find_best_supporting_source.              *)
(***************************************************************************)
MinSentenceLen == 20       \* len(sentence.strip()) < 20
ScoreThreshold == 300      \* best_score > 3, in hundredths
TitleWeight == 2           \* len(sentence_words & title_words) * 2

UpperCase == <<"A","B","C","D","E","F","G","H","I","J","K","L","M",
               "N","O","P","Q","R","S","T","U","V","W","X","Y","Z">>
LowerCase == <<"a","b","c","d","e","f","g","h","i","j","k","l","m",
               "n","o","p","q","r","s","t","u","v","w","x","y","z">>

\* s.lower()
Lower(s) ==
    [i \in 1..Len(s) |->
        IF \E k \in 1..26 : UpperCase[k] = s[i]
        THEN LowerCase[CHOOSE k \in 1..26 : UpperCase[k] = s[i]]
        ELSE s[i]]

\* set(s.split()): the maximal runs of characters that are not whitespace
Words(s) ==
    LET starts == {a \in 1..Len(s) : s[a] \notin Whitespace
                                       /\ (a = 1 \/ s[a - 1] \in Whitespace)}
        stop(a) == CHOOSE b \in a..Len(s) :
                      /\ \A k \in a..b : s[k] \notin Whitespace
                      /\ (b = Len(s) \/ s[b + 1] \in Whitespace)
    IN  {SubSeq(s, a, stop(a)) : a \in starts}

\* re.split(r'[.!?]+', text): the pieces between the runs of terminators
SplitSentences(t) ==
    LET first == {i \in 1..Len(t) : t[i] \in Terminators
                                      /\ (i = 1 \/ t[i - 1] \notin Terminators)}
        last == {i \in 1..Len(t) : t[i] \in Terminators
                                     /\ (i = Len(t) \/ t[i + 1] \notin Terminators)}
        from == Ascending(first)
        to == Ascending(last)
    IN  [k \in 1..(Len(from) + 1) |->
            SubSeq(t, IF k = 1 THEN 1 ELSE to[k - 1] + 1,
                      IF k = Len(from) + 1 THEN Len(t) ELSE from[k] - 1)]

RECURSIVE Replace(_, _, _)
\* t.replace(old, new): every occurrence, from the left, old not empty
Replace(t, old, new) ==
    LET p == Find(t, old)
    IN  IF p = 0 THEN t
        ELSE SubSeq(t, 1, p - 1) \o new
                \o Replace(SubSeq(t, p + Len(old), Len(t)), old, new)

FactualIndicators ==
    { <<"r","e","s","e","a","r","c","h"," ","s","h","o","w","s">>,
      <<"s","t","u","d","i","e","s"," ","i","n","d","i","c","a","t","e">>,
      <<"a","c","c","o","r","d","i","n","g"," ","t","o">>,
      <<"d","a","t","a"," ","r","e","v","e","a","l","s">>,
      <<"f","i","n","d","i","n","g","s"," ","s","u","g","g","e","s","t">>,
      <<"r","e","s","u","l","t","s"," ","s","h","o","w">>,
      <<"r","e","s","e","a","r","c","h","e","r","s"," ","f","o","u","n","d">>,
      <<"a","n","a","l","y","s","i","s"," ","r","e","v","e","a","l","s">>,
      <<"e","v","i","d","e","n","c","e"," ","s","u","g","g","e","s","t","s">> }

\* any(indicator in sentence.lower() for indicator in factual_indicators)
IsFactual(sentence) ==
    LET lowered == Lower(sentence)
    IN  \E ind \in FactualIndicators : Contains(lowered, ind)

RECURSIVE SumOver(_, _)
\* the sum of f over the elements of a sequence
SumOver(f(_), seq) == IF seq = <<>> THEN 0 ELSE f(Head(seq)) + SumOver(f, Tail(seq))

\* score * source.credibility_score, in hundredths
WeightedScore(sentence, source) ==
    LET sentence_words == Words(Lower(sentence))
        overlap(s) == Cardinality(sentence_words \cap Words(Lower(s)))
    IN  (overlap(source.title) * TitleWeight + SumOver(overlap, source.relevant_quotes))
           * source.credibility_score

\* _find_best_supporting_source returns None
NoSource == <<>>

RECURSIVE BestFrom(_, _, _, _, _)
\* the loop of _find_best_supporting_source from source i on, and its return
BestFrom(sentence, sources, i, best_source_id, best_score) ==
    IF i > Len(sources)
    THEN IF best_score > ScoreThreshold THEN best_source_id ELSE NoSource
    ELSE LET weighted_score == WeightedScore(sentence, sources[i])
         IN  IF weighted_score > best_score
             THEN BestFrom(sentence, sources, i + 1, sources[i].source_id, weighted_score)
             ELSE BestFrom(sentence, sources, i + 1, best_source_id, best_score)

\* _find_best_supporting_source(sentence, sources)
FindBestSupportingSource(sentence, sources) == BestFrom(sentence, sources, 1, NoSource, 0)

\* one turn of `for sentence in sentences`: st holds modified_text,
\* cited_sources, citation_counter and, per marker added, the sentence it was
\* added for
SemanticStep(st, sentence, sources) ==
    IF Len(Strip(sentence)) < MinSentenceLen \/ ~IsFactual(sentence) THEN st
    ELSE LET best_source == FindBestSupportingSource(sentence, sources)
         IN  IF best_source = NoSource \/ NumberOf(st.cited_sources, best_source) /= 0
             THEN st
             ELSE [modified_text |->
                      Replace(st.modified_text, sentence,
                              sentence \o <<" ">> \o Bracketed(st.citation_counter)),
                   cited_sources |->
                      DictSet(st.cited_sources, best_source, st.citation_counter),
                   citation_counter |-> st.citation_counter + 1,
                   cited_for |-> Append(st.cited_for, sentence)]

RECURSIVE ForSentences(_, _, _, _)
\* the loop over the sentences from sentence k on
ForSentences(st, sentences, k, sources) ==
    IF k > Len(sentences) THEN st
    ELSE ForSentences(SemanticStep(st, sentences[k], sources), sentences, k + 1, sources)

\* apply_semantic_citations(text, sources): the arguments, the locals and the
\* returned string `out`
ApplySemanticCitations(st, text, sources) ==
    LET sentences == SplitSentences(text)
        end == ForSentences([modified_text |-> text, cited_sources |-> <<>>,
                             citation_counter |-> 1, cited_for |-> <<>>],
                            sentences, 1, sources)
    IN  [status |-> "returned",
         text |-> text,
         sources |-> sources,
         sentences |-> sentences,
         modified_text |-> end.modified_text,
         cited_sources |-> end.cited_sources,
         cited_for |-> end.cited_for,
         out |-> Finish(st, end.modified_text, sources, end.cited_sources)]

\* the inputs of the semantic matcher
MaxSentences == 2
MaxSources == 2

\* a citable sentence about cats
CatsSentence == <<"r","e","s","e","a","r","c","h"," ","s","h","o","w","s"," ","c","a","t","s"," ","p","u","r","r","."," ">>
\* a citable sentence about oxen, capitalised
OxSentence == <<"S","t","u","d","i","e","s"," ","I","n","d","i","c","a","t","e"," ","o","x"," ","m","o","o","!"," ">>
\* a supported sentence with an indicator, 19 characters long
ShortSentence == <<"r","e","s","u","l","t","s"," ","s","h","o","w"," ","o","x"," ","m","o","o","!"," ">>
\* a sentence that contains the one about cats and shares fewer words
PurringSentence == <<"r","e","s","e","a","r","c","h"," ","s","h","o","w","s"," ","c","a","t","s"," ","p","u","r","r","i","n","g","?"," ">>
\* a supported sentence without an indicator
PlainSentence == <<"c","a","t","s"," ","p","u","r","r"," ","l","o","u","d","l","y"," ","a","l","l"," ","d","a","y","."," ">>
SemanticFragments ==
    {CatsSentence, OxSentence, ShortSentence, PurringSentence, PlainSentence}

SemanticTexts ==
    {Concat(fs) : fs \in UNION {[1..n -> SemanticFragments] : n \in 0..MaxSentences}}

\* score 6 at credibility 0.95
SourceCats == NewSource(Entry(AllKeys, UrlA, <<"C","a","t","s"," ","P","u","r","r">>, TsGood,
                              <<<<"c","a","t","s"," ","p","u","r","r"," ","l","o","u","d","l","y">>>>, 95, "peer_reviewed", AccessGood))
\* score 6 at credibility 0.5: exactly the threshold
SourceOxHalf == NewSource(Entry(AllKeys, UrlB, <<"O","x"," ","M","o","o">>, TsGood,
                                <<<<"o","x"," ","m","o","o">>>>, 50, "blog", AccessNone))
\* score 4 at credibility 0.95
SourceOx == NewSource(Entry(AllKeys, UrlC, <<"O","x"," ","M","o","o">>, TsBad,
                            <<>>, 95, "news", AccessGood))
\* the same words and credibility as SourceCats
SourceCatsTie == NewSource(Entry(AllKeys, UrlD, <<"C","a","t","s"," ","P","u","r","r">>, TsGood,
                                 <<<<"c","a","t","s"," ","p","u","r","r"," ","l","o","u","d","l","y">>>>, 95, "news", AccessNone))
SemanticSources == {SourceCats, SourceOxHalf, SourceOx, SourceCatsTie}

\* the `sources` argument: a dict of up to MaxSources sources, in any order
SourceDicts ==
    UNION {Orderings(S) : S \in {T \in SUBSET SemanticSources : Cardinality(T) <= MaxSources}}

(***************************************************************************)
(* validate_citations.                                                     *)
(***************************************************************************)
\* the digits d for which "[d]" starts at offset i of t (the group of
\* \[(\d+)\] matched at i), <<>> when the pattern does not match there
MarkerAt(t, i) ==
    IF t[i] /= "[" THEN <<>>
    ELSE LET stop == CHOOSE j \in (i + 1)..(Len(t) + 1) :
                        /\ j = Len(t) + 1 \/ t[j] \notin DigitChars
                        /\ \A k \in (i + 1)..(j - 1) : t[k] \in DigitChars
         IN  IF stop > i + 1 /\ stop <= Len(t) /\ t[stop] = "]"
             THEN SubSeq(t, i + 1, stop - 1)
             ELSE <<>>

\* re.findall(r'\[(\d+)\]', text): the offsets of the matches, then the groups
MarkerOffsets(t) == {i \in {j \in 1..Len(t) : t[j] = "["} : MarkerAt(t, i) /= <<>>}

FindAllMarkers(t) ==
    LET at == Ascending(MarkerOffsets(t)) IN [n \in 1..Len(at) |-> MarkerAt(t, at[n])]

\* the pattern without re.MULTILINE: ^ matches at the start of the text only
FindAllLineStartMarkersNoMultiline(t) ==
    LET at == Ascending({i \in MarkerOffsets(t) : i = 1})
    IN  [n \in 1..Len(at) |-> MarkerAt(t, at[n])]

\* re.findall(r'^\[(\d+)\]', text, re.MULTILINE)
FindAllLineStartMarkers(t) ==
    LET at == Ascending({i \in MarkerOffsets(t) : i = 1 \/ t[i - 1] = "\n"})
    IN  [n \in 1..Len(at) |-> MarkerAt(t, at[n])]

\* len(re.split(r'[.!?]+', text)): one more than the runs of terminators
TotalSentences(t) ==
    1 + Cardinality({i \in 1..Len(t) :
            t[i] \in Terminators /\ (i = 1 \/ t[i - 1] \notin Terminators)})

\* a count of the markers, not of the sentences that hold one
SentencesWithCitationsEveryMarker(t) == Cardinality(MarkerOffsets(t))

\* len(re.findall(r'[.!?][^.!?]*\[\d+\]', text)): the terminators followed,
\* before the next terminator, by a marker
SentencesWithCitations(t) ==
    LET markers == MarkerOffsets(t)
        ends == {i \in 1..Len(t) : t[i] \in Terminators}
    IN  Cardinality({i \in ends :
            \E p \in markers : p > i /\ \A k \in ends : ~(i < k /\ k < p)})

\* the digit strings of a set, by the number they denote, the shorter first
ByNumber(S) ==
    [n \in 1..Cardinality(S) |->
        CHOOSE c \in S :
           Cardinality({d \in S : \/ StrToNum(d) < StrToNum(c)
                                  \/ StrToNum(d) = StrToNum(c) /\ Len(d) < Len(c)}) = n - 1]

\* validate_citations(text): the ValidationResult, with the text it is about.
\* errors and warnings hold, per message, its kind, the number it is about and
\* the digits it shows.  The messages of a kind come in the order in which
\* Python iterates a set; here they are listed by ascending number
ValidateCitations(text) ==
    LET citations == FindAllMarkers(text)
        citation_numbers == {StrToNum(c) : c \in Range(citations)}
        reference_numbers == {StrToNum(r) : r \in Range(FindAllLineStartMarkers(text))}
        missing_refs == Ascending(citation_numbers \ reference_numbers)
        unused_refs == Ascending(reference_numbers \ citation_numbers)
        duplicates == ByNumber({c \in Range(citations) :
                          Cardinality({n \in 1..Len(citations) : citations[n] = c}) > 1})
    IN  [text |-> text,
         total_citations |-> Cardinality(citation_numbers),
         total_sources |-> Cardinality(reference_numbers),
         sentences_with_citations |-> SentencesWithCitations(text),
         total_sentences |-> TotalSentences(text),
         errors |-> [n \in 1..Len(missing_refs) |->
                        [kind |-> "no_reference", number |-> missing_refs[n],
                         digits |-> NumToStr(missing_refs[n])]],
         warnings |-> [n \in 1..Len(unused_refs) |->
                        [kind |-> "not_cited", number |-> unused_refs[n],
                         digits |-> NumToStr(unused_refs[n])]]
                      \o [n \in 1..Len(duplicates) |->
                            [kind |-> "multiple", number |-> StrToNum(duplicates[n]),
                             digits |-> duplicates[n]]]]

(***************************************************************************)
(* The state machine.                                                      *)
(***************************************************************************)
NoCall == [status |-> "none"]
NoReport == [text |-> <<>>, total_citations |-> -1, total_sources |-> -1,
             sentences_with_citations |-> -1, total_sentences |-> -1,
             errors |-> <<>>, warnings |-> <<>>]

\* extract_all_sources has not been called on its own
NoExtract == [status |-> "none"]

\* a method that has not been called
NotCalled == [status |-> "none"]

\* the characters of a style's name
StyleName(st) ==
    CASE st = "apa" -> <<"a","p","a">>
      [] st = "chicago" -> <<"c","h","i","c","a","g","o">>
      [] st = "generic" -> <<"g","e","n","e","r","i","c">>

\* CitationEngine(workspace_dir, style) on an existing, empty findings directory
Init ==
    /\ files = {}
    /\ style \in Styles
    /\ call = NoCall
    /\ report = NoReport
    /\ extracted = NoExtract
    /\ ctor = [style |-> StyleName(style), env |-> <<>>]
    /\ formatted = <<>>
    /\ semantic = NotCalled
    /\ status = NotCalled
    /\ phase = NotCalled
    /\ wait = NotCalled
    /\ run = NotCalled

\* a research subagent writes a findings file
WriteFindings ==
    /\ Cardinality(files) < MaxFiles
    /\ \E b \in BatchPool \ files : files' = files \cup {b}
    /\ call' = NoCall
    /\ report' = NoReport
    /\ UNCHANGED <<style, extracted>>
    /\ phase' = NotCalled
    /\ UNCHANGED <<formatVars, status, wait, run>>

\* what extract_all_sources() can return: self.findings_dir.glob() yields the
\* files in an order the file system decides
LoaderOutcomes == UNION {ExtractAllSources(order) : order \in Orderings(files)}

\* apply_citations(text, min_credibility), the loader having ended as `loaded`
CallOutcome(text, min_credibility, loaded) ==
    IF loaded.raised
    THEN [status |-> "raised", text |-> text, min_credibility |-> min_credibility]
    ELSE ApplyCitations(style, text, min_credibility, loaded.sources)

\* engine.apply_citations(text, min_credibility).  The engine keeps nothing
\* between calls, so a call made after another one starts from the same
\* files and style as one made with no result in hand: only those are listed
DoApplyCitations ==
    /\ call = NoCall
    /\ \E loaded \in LoaderOutcomes, text \in Texts, min_credibility \in MinCredibilities :
          call' = CallOutcome(text, min_credibility, loaded)
    /\ report' = NoReport
    /\ UNCHANGED <<files, style, extracted>>
    /\ UNCHANGED <<formatVars, systemVars>>

\* the same call once more, on the same text, threshold and files
RepeatApplyCitations ==
    /\ call.status = "returned"
    /\ \E loaded \in LoaderOutcomes :
          call' = CallOutcome(call.text, call.min_credibility, loaded)
    /\ report' = NoReport
    /\ UNCHANGED <<files, style, extracted>>
    /\ UNCHANGED <<formatVars, systemVars>>

\* engine.validate_citations(call.out): the text apply_citations returned,
\* which is the text it was given whenever it cited nothing
DoValidateCitations ==
    /\ call.status = "returned"
    /\ report' = ValidateCitations(call.out)
    /\ UNCHANGED <<files, style, call, extracted>>
    /\ UNCHANGED <<formatVars, systemVars>>

Next ==
    \/ WriteFindings
    \/ DoApplyCitations
    \/ RepeatApplyCitations
    \/ DoValidateCitations

Spec == Init /\ [][Next]_vars

(***************************************************************************)
(* The loader on its own: any findings file, extract_all_sources().        *)
(***************************************************************************)
\* a research subagent writes a findings file, of any kind
WriteAnyFindings ==
    /\ Cardinality(files) < MaxBatches
    /\ \E b \in LoaderPool \ files : files' = files \cup {b}
    /\ extracted' = NoExtract
    /\ UNCHANGED <<style, call, report>>
    /\ UNCHANGED <<formatVars, systemVars>>

\* engine.extract_all_sources(): the files in the order glob() yields them,
\* and the map returned, or the exception that left the method
DoExtractAllSources ==
    /\ \E order \in Orderings(files) :
          \E loaded \in ExtractAllSources(order) :
             extracted' = [status |-> IF loaded.raised THEN "raised" ELSE "returned",
                           order |-> order,
                           sources |-> loaded.sources]
    /\ UNCHANGED <<files, style, call, report>>
    /\ UNCHANGED <<formatVars, systemVars>>

NextLoader ==
    \/ WriteAnyFindings
    \/ DoExtractAllSources

SpecLoader == Init /\ [][NextLoader]_vars

(***************************************************************************)
(* The validator on its own: validate_citations(text) on any text.         *)
(***************************************************************************)
\* pieces of the texts handed to the validator as they are: an inline marker,
\* sentence ends, the heading of the references section, reference lines, a
\* marker with no reference line, and a marker written with a leading zero
InlineOne == <<"a"," ","[","1","]">>
FullStop == <<".", " ">>
Exclaim == <<"b","?","!">>
RefLineOne == <<"\n","[","1","]"," ","r">>
RefLineTwo == <<"\n","[","2","]"," ","r">>
InlineThree == <<" ","[","3","]">>
InlineZeroOne == <<" ","[","0","1","]">>
Pieces == {InlineOne, FullStop, Exclaim, References, RefLineOne, RefLineTwo,
           InlineThree, InlineZeroOne}
ValidatorTexts == {Concat(fs) : fs \in UNION {[1..n -> Pieces] : n \in 0..MaxPieces}}

\* engine.validate_citations(text).  The method reads nothing but its argument,
\* so the calls made with no report in hand are all the calls there are
DoValidateText ==
    /\ report = NoReport
    /\ \E text \in ValidatorTexts : report' = ValidateCitations(text)
    /\ UNCHANGED <<files, style, call, extracted>>
    /\ UNCHANGED <<formatVars, systemVars>>

NextValidator == DoValidateText

SpecValidator == Init /\ [][NextValidator]_vars

\* engine.apply_semantic_citations(text, sources)
DoApplySemanticCitations ==
    /\ semantic = NotCalled
    /\ \E text \in SemanticTexts, sources \in SourceDicts :
          semantic' = ApplySemanticCitations(style, text, sources)
    /\ UNCHANGED <<files, style, call, report, extracted, ctor, formatted, systemVars>>

NextSemantic == DoApplySemanticCitations

SpecSemantic == Init /\ [][NextSemantic]_vars

(***************************************************************************)
(* CitationEngine.__init__ (style selection) and _format_reference.        *)
(***************************************************************************)
\* the style argument: None, or a string
StyleArguments == {<<>>, <<"A","P","A">>, <<"C","h","i","c","a","g","o">>, <<"g","e","n","e","r","i","c">>, <<"m","l","a">>}
\* os.getenv("CITATION_STYLE", "")
StyleEnvironments == {<<>>, <<"C","H","I","C","A","G","O">>, <<" ","g","e","n","e","r","i","c"," ">>, <<"b","o","g","u","s">>}

\* a selection that reads the environment first
EffectiveStyleEnvFirst(arg, env) ==
    LET env_style == Lower(Strip(env))
        requested == Lower(IF env_style /= <<>> THEN env_style
                           ELSE IF arg /= <<>> THEN arg ELSE StyleName("apa"))
    IN  IF \E st \in Styles : StyleName(st) = requested
        THEN CHOOSE st \in Styles : StyleName(st) = requested
        ELSE "apa"

\* lines 85-88: self.style
EffectiveStyle(arg, env) ==
    LET env_style == Lower(Strip(env))
        requested == Lower(IF arg /= <<>> THEN arg
                           ELSE IF env_style /= <<>> THEN env_style ELSE StyleName("apa"))
    IN  IF \E st \in Styles : StyleName(st) = requested
        THEN CHOOSE st \in Styles : StyleName(st) = requested
        ELSE "apa"

\* the citation numbers of the formatter's calls
MaxNumber == 2

\* locators: scheme://host/path, no host, no slash, no scheme
UrlNoHost == <<"h","t","t","p",":","/","/">>
UrlBare == <<"a",".","i","o">>
UrlNoScheme == <<"a",".","i","o","/","x","/","1">>
FormatUrls == {UrlA, UrlNoHost, UrlBare, UrlNoScheme}

\* Source(...), no quotes
FormatSource(url, ts, access) ==
    [url |-> url, title |-> <<"T","A">>, timestamp |-> ts, relevant_quotes |-> <<>>,
     credibility_score |-> DefaultCredibility, source_type |-> "unknown",
     access_date |-> access]

FormatSources ==
    {FormatSource(url, ts, access) :
        url \in FormatUrls, ts \in {TsGood, TsBad},
        access \in {AccessGood, AccessIso, AccessBad, AccessNone}}

\* CitationEngine(workspace_dir, style) with CITATION_STYLE set to env
Construct ==
    /\ \E arg \in StyleArguments, env \in StyleEnvironments :
          /\ ctor' = [style |-> arg, env |-> env]
          /\ style' = EffectiveStyle(arg, env)
    /\ UNCHANGED <<files, call, report, extracted, formatted, semantic, systemVars>>

\* the record of engine._format_reference(source, citation_num)
FormatCall(source, n) ==
    [style |-> style, source |-> source, citation_num |-> n,
     out |-> FormatReference(style, source, n)]

\* engine._format_reference(source, citation_num)
DoFormatReference ==
    /\ formatted = <<>>
    /\ \E source \in FormatSources, n \in 1..MaxNumber :
          formatted' = <<FormatCall(source, n)>>
    /\ UNCHANGED <<files, style, call, report, extracted, ctor, semantic, systemVars>>

\* the same source and number once more, by the engine constructed last
RepeatFormatReference ==
    /\ Len(formatted) = 1
    /\ formatted' = Append(formatted,
                           FormatCall(formatted[1].source, formatted[1].citation_num))
    /\ UNCHANGED <<files, style, call, report, extracted, ctor, semantic, systemVars>>

NextFormatter == Construct \/ DoFormatReference \/ RepeatFormatReference

SpecFormatter == Init /\ [][NextFormatter]_vars

(***************************************************************************)
(* ResearchSystem.get_research_status.                                     *)
(***************************************************************************)
MaxStatusFiles == 3

\* top-level "timestamp" values: two strings, the second the later, and a number
TsLater == "2024-02-01T00:00:00Z"
TsEpoch == "1700000000"
IsNumber(ts) == ts = TsEpoch

\* a < b for two strings, as Python compares them
StringLess(a, b) == a = TsGood /\ b = TsLater

\* top-level "confidence" values: two numbers and a string
ConfidenceHigh == "high"
Confidences == {"0.75", "0.5", ConfidenceHigh}

\* a confidence in hundredths
ConfidenceValue(c) == CASE c = "0.75" -> 75 [] c = "0.5" -> 50

\* a findings file as get_research_status reads it: the kind of its content,
\* the top-level keys present and their values
StatusFile(name, kind, keys, sources, confidence, ts) ==
    [name |-> name, kind |-> kind, keys |-> keys, sources |-> sources,
     confidence |-> confidence, timestamp |-> ts]

StatusPool ==
    { StatusFile("findings_1.json", "object", {"sources", "confidence", "timestamp"},
                 <<EntryA, EntryD>>, "0.75", TsGood),
      StatusFile("findings_2.json", "invalid_json", {}, <<>>, "", ""),
      StatusFile("findings_3.json", "object", {"timestamp"}, <<>>, "", TsLater),
      StatusFile("findings_4.json", "not_object", {}, <<>>, "", ""),
      StatusFile("findings_5.json", "object", {"sources", "confidence"},
                 <<EntryB>>, ConfidenceHigh, ""),
      StatusFile("findings_6.json", "object", {"sources", "confidence", "timestamp"},
                 <<EntryC>>, "0.5", TsEpoch) }

\* last_updated = None
NoTimestamp == ""

\* the locals of get_research_status before the first file
StatusStart ==
    [raised |-> FALSE, total_sources |-> 0, confidence_scores |-> <<>>,
     last_updated |-> NoTimestamp]

\* lines 845-861: the body of `for file in findings_files`.  json.loads of
\* text that is not JSON is caught; data.get on a list and the comparison of a
\* string with a number raise what the except clause does not name
StatusStep(st, file) ==
    IF st.raised THEN st
    ELSE IF file.kind = "invalid_json" THEN st
    ELSE IF file.kind = "not_object" THEN [st EXCEPT !.raised = TRUE]
    ELSE LET total == st.total_sources
                         + (IF "sources" \in file.keys THEN Len(file.sources) ELSE 0)
             scores == IF "confidence" \in file.keys
                       THEN Append(st.confidence_scores, file.confidence)
                       ELSE st.confidence_scores
             compared == "timestamp" \in file.keys /\ st.last_updated /= NoTimestamp
         IN  IF compared /\ IsNumber(file.timestamp) /= IsNumber(st.last_updated)
             THEN [st EXCEPT !.raised = TRUE]
             ELSE [raised |-> FALSE,
                   total_sources |-> total,
                   confidence_scores |-> scores,
                   last_updated |->
                       IF /\ "timestamp" \in file.keys
                          /\ (st.last_updated = NoTimestamp
                                \/ StringLess(st.last_updated, file.timestamp))
                       THEN file.timestamp ELSE st.last_updated]

RECURSIVE StatusLoop(_, _, _)
\* the loop from file i on
StatusLoop(st, order, i) ==
    IF i > Len(order) THEN st ELSE StatusLoop(StatusStep(st, order[i]), order, i + 1)

RECURSIVE Sum(_)
\* sum(confidence_scores), in hundredths
Sum(seq) == IF seq = <<>> THEN 0 ELSE ConfidenceValue(Head(seq)) + Sum(Tail(seq))

\* get_research_status(), no research running (start_time is None), the files
\* being globbed in the order `order`; confidence_avg is the pair of the sum
\* and the count it divides
GetResearchStatus(order) ==
    LET end == StatusLoop(StatusStart, order, 1)
    IN  IF end.raised \/ ConfidenceHigh \in Range(end.confidence_scores)
        THEN [status |-> "raised", order |-> order]
        ELSE [status |-> "returned",
              order |-> order,
              active_research_areas |-> Len(order),
              total_sources |-> end.total_sources,
              last_updated |-> end.last_updated,
              confidence_avg |->
                  IF end.confidence_scores /= <<>>
                  THEN <<Sum(end.confidence_scores), Len(end.confidence_scores)>>
                  ELSE <<0, 1>>,
              research_duration_seconds |-> 0]

\* a findings file appears in the workspace
WriteStatusFindings ==
    /\ Cardinality(files) < MaxStatusFiles
    /\ \E f \in StatusPool \ files : files' = files \cup {f}
    /\ status' = NotCalled
    /\ UNCHANGED <<style, call, report, extracted, formatVars, phase, wait, run>>

\* system.get_research_status()
DoGetResearchStatus ==
    /\ \E order \in Orderings(files) : status' = GetResearchStatus(order)
    /\ UNCHANGED <<files, style, call, report, extracted, formatVars, phase, wait, run>>

NextStatus == WriteStatusFindings \/ DoGetResearchStatus

SpecStatus == Init /\ [][NextStatus]_vars

(***************************************************************************)
(* ResearchSystem._execute_citation_phase and _normalize_references.       *)
(***************************************************************************)
\* "## References"
Heading == <<"#","#"," ","R","e","f","e","r","e","n","c","e","s">>

\* s.rstrip()
Rstrip(s) ==
    LET keep == {i \in 1..Len(s) : s[i] \notin Whitespace}
    IN  IF keep = {} THEN <<>>
        ELSE SubSeq(s, 1, CHOOSE i \in keep : \A j \in keep : j <= i)

\* s.lstrip()
Lstrip(s) ==
    LET keep == {i \in 1..Len(s) : s[i] \notin Whitespace}
    IN  IF keep = {} THEN <<>>
        ELSE SubSeq(s, CHOOSE i \in keep : \A j \in keep : i <= j, Len(s))

\* s.startswith(prefix)
StartsWith(s, prefix) == Len(s) >= Len(prefix) /\ SubSeq(s, 1, Len(prefix)) = prefix

\* s.splitlines(), the line ends being "\n"
Splitlines(t) ==
    LET pieces == SplitOn(t, "\n")
    IN  IF pieces[Len(pieces)] = <<>> THEN SubSeq(pieces, 1, Len(pieces) - 1) ELSE pieces

\* lines 567-576: the body of `for ln in lines`
NormalizeLine(st, ln) ==
    IF ~st.started /\ Strip(ln) = <<>>
    THEN [st EXCEPT !.new_lines = Append(@, ln)]
    ELSE LET s == Rstrip(ln)
         IN  [started |-> TRUE,
              new_lines |->
                 Append(st.new_lines,
                        IF /\ StartsWith(s, <<"[">>)
                           /\ Contains(s, <<"]">>)
                           /\ ~StartsWith(Lstrip(s), <<"-", " ">>)
                        THEN <<"-", " ">> \o s
                        ELSE s)]

RECURSIVE NormalizeLines(_, _, _)
\* the loop from line i on
NormalizeLines(st, lines, i) ==
    IF i > Len(lines) THEN st
    ELSE NormalizeLines(NormalizeLine(st, lines[i]), lines, i + 1)

\* _normalize_references(text)
NormalizeReferences(text) ==
    LET p == Find(text, Heading)
        head == SubSeq(text, 1, p - 1)
        tail == SubSeq(text, p + Len(Heading), Len(text))
        end == NormalizeLines([started |-> FALSE, new_lines |-> <<>>], Splitlines(tail), 1)
    IN  IF ~Contains(text, Heading) THEN text
        ELSE head \o Heading \o <<"\n">> \o Join(end.new_lines, <<"\n">>)

\* f"{coverage_percentage:.1f}", the coverage being with / total * 100
OneDecimal(with, total) ==
    LET q == (1000 * with) \div total
        r == (1000 * with) % total
        tenths == IF 2 * r > total \/ (2 * r = total /\ q % 2 = 1) THEN q + 1 ELSE q
    IN  NumToStr(tenths \div 10) \o <<".">> \o NumToStr(tenths % 10)

\* the text appended to the validated text
CitationSummary(summary) ==
    <<"\n","\n","-","-","-","\n","\n","C","i","t","a","t","i","o","n"," ","S","u","m","m","a","r","y",":","\n","-"," ","T","o","t","a","l"," ","c","i","t","a","t","i","o","n","s"," ","a","d","d","e","d",":"," ">> \o NumToStr(summary.total_citations)
    \o <<"\n","-"," ","T","o","t","a","l"," ","s","o","u","r","c","e","s"," ","r","e","f","e","r","e","n","c","e","d",":"," ">> \o NumToStr(summary.total_sources)
    \o <<"\n","-"," ","C","o","v","e","r","a","g","e"," ","(","s","e","n","t","e","n","c","e","s"," ","w","i","t","h"," ","c","i","t","a","t","i","o","n","s",")",":"," ">>
    \o OneDecimal(summary.sentences_with_citations, summary.total_sentences)
    \o <<"%", "\n">>

\* what the citations agent can answer: text without the tags, and a cited
\* text between them
OpenTag == <<"<","e","x","a","c","t","_","t","e","x","t","_","w","i","t","h","_","c","i","t","a","t","i","o","n",">">>
CloseTag == <<"<","/","e","x","a","c","t","_","t","e","x","t","_","w","i","t","h","_","c","i","t","a","t","i","o","n",">">>
AgentPlain == <<"M","o","c","k"," ","s","t","r","e","a","m","e","d"," ","r","e","s","p","o","n","s","e",".">>
AgentTagged == OpenTag \o <<"a","b","c","d","e","f","g","h","i","j"," ","[","1","]",".","\n","\n","#","#"," ","R","e","f","e","r","e","n","c","e","s","\n","\n","[","1","]"," ","T","A","."," ","h","t","t","p",":","/","/","a",".","i","o","/","1">> \o CloseTag
AgentResults == {AgentPlain, AgentTagged}

\* _re.search(r"<exact_text_with_citation>([\s\S]*?)</exact_text_with_citation>"):
\* <<found, group 1>>
SearchTagged(t) ==
    LET p == Find(t, OpenTag)
        rest == SubSeq(t, p + Len(OpenTag), Len(t))
        q == Find(rest, CloseTag)
    IN  IF p = 0 \/ q = 0 THEN <<FALSE, <<>>>> ELSE <<TRUE, SubSeq(rest, 1, q - 1)>>

\* validated text and its summary, appended
Summarized(path, synthesis_text, programmatic, queried, text) ==
    LET summary == ValidateCitations(text)
    IN  [status |-> "returned",
         synthesis_text |-> synthesis_text,
         programmatic |-> programmatic,
         path |-> path,
         queried |-> queried,
         validated |-> text,
         summary |-> summary,
         out |-> text \o CitationSummary(summary)]

\* _execute_citation_phase(client, synthesis_text): apply_citations having
\* ended as `programmatic`, and the agent, when queried, answering agent_result
ExecuteCitationPhase(synthesis_text, programmatic, agent_result) ==
    IF programmatic.status = "raised"
    THEN [status |-> "raised", synthesis_text |-> synthesis_text,
          programmatic |-> programmatic, queried |-> FALSE]
    ELSE IF Contains(programmatic.out, Heading)
    THEN Summarized("programmatic", synthesis_text, programmatic, FALSE,
                    NormalizeReferences(programmatic.out))
    ELSE LET found == SearchTagged(agent_result)
         IN  IF found[1]
             THEN Summarized("agent", synthesis_text, programmatic, TRUE,
                             NormalizeReferences(found[2]))
             ELSE [status |-> "returned",
                   synthesis_text |-> synthesis_text,
                   programmatic |-> programmatic,
                   path |-> "last_resort",
                   queried |-> TRUE,
                   out |-> synthesis_text]

\* a synthesis that holds the heading of a reference section of its own
HeadingLine == Heading \o <<"\n">>
PhaseTexts ==
    {Concat(fs) : fs \in UNION {[1..n -> {SentenceOne, SentenceTwo, HeadingLine}] :
                                   n \in 0..MaxFrags}}

\* await self._execute_citation_phase(client, synthesis_text)
DoExecuteCitationPhase ==
    /\ phase = NotCalled
    /\ \E loaded \in LoaderOutcomes, text \in PhaseTexts, agent_result \in AgentResults :
          phase' = ExecuteCitationPhase(
                       text, CallOutcome(text, DefaultMinCredibility, loaded), agent_result)
    /\ UNCHANGED <<files, style, call, report, extracted, formatVars, status, wait, run>>

NextPhase == WriteFindings \/ DoExecuteCitationPhase

SpecPhase == Init /\ [][NextPhase]_vars

(***************************************************************************)
(* ResearchSystem._await_findings.  Time is counted in half seconds; the   *)
(* two differences the loop tests, now - start and now - last_change, are  *)
(* kept up to MaxElapsed, above every finite threshold.                    *)
(***************************************************************************)
MaxElapsed == 12

\* asyncio.sleep(1.5)
SleepTicks == 3

\* float("inf"), which _env_float accepts for either threshold
Infinite == -1

MinFilesChoices == {1, 2}
IdleChoices == {0, 4}
TimeoutChoices == {4, 7, Infinite}

\* a >= threshold and a > threshold for a difference a and a threshold
AtLeast(a, threshold) == threshold /= Infinite /\ a >= threshold
MoreThan(a, threshold) == threshold /= Infinite /\ a > threshold

\* a + d, kept up to MaxElapsed
Later(a, d) == IF a + d > MaxElapsed THEN MaxElapsed ELSE a + d

\* lines 694-696: the call starts
AwaitStart(min_files, idle_secs, timeout_secs) ==
    [status |-> "polling", min_files |-> min_files, idle_secs |-> idle_secs,
     timeout_secs |-> timeout_secs, last_count |-> -1,
     elapsed |-> 0, since_change |-> 0, quiet |-> 0, returned_by |-> "none"]

\* a loop body without the timeout test
PollWithoutTimeout(w, fcount) ==
    LET since == IF fcount /= w.last_count THEN 0 ELSE w.since_change
        seen == [w EXCEPT !.last_count = fcount, !.since_change = since]
    IN  IF fcount >= w.min_files /\ AtLeast(since, w.idle_secs)
        THEN [seen EXCEPT !.status = "returned", !.returned_by = "idle"]
        ELSE [seen EXCEPT !.status = "sleeping"]

\* lines 698-709: one turn of the loop, up to its return or its sleep, the
\* directory holding fcount findings files
Poll(w, fcount) ==
    LET since == IF fcount /= w.last_count THEN 0 ELSE w.since_change
        seen == [w EXCEPT !.last_count = fcount, !.since_change = since]
    IN  IF fcount >= w.min_files /\ AtLeast(since, w.idle_secs)
        THEN [seen EXCEPT !.status = "returned", !.returned_by = "idle"]
        ELSE IF MoreThan(w.elapsed, w.timeout_secs)
        THEN [seen EXCEPT !.status = "returned", !.returned_by = "timeout"]
        ELSE [seen EXCEPT !.status = "sleeping"]

\* await self._await_findings(min_files, idle_secs, timeout_secs) is entered
StartAwait ==
    /\ wait = NotCalled
    /\ \E min_files \in MinFilesChoices, idle_secs \in IdleChoices,
          timeout_secs \in TimeoutChoices :
          wait' = AwaitStart(min_files, idle_secs, timeout_secs)
    /\ UNCHANGED <<files, style, call, report, extracted, formatVars, status, phase, run>>

\* the loop counts the files, reads the clock and returns or goes to sleep
DoPoll ==
    /\ wait.status = "polling"
    /\ wait' = Poll(wait, Cardinality(files))
    /\ UNCHANGED <<files, style, call, report, extracted, formatVars, status, phase, run>>

\* the sleep ends, 1.5 seconds later or more
DoWake ==
    /\ wait.status = "sleeping"
    /\ \E d \in {SleepTicks, SleepTicks + 1} :
          wait' = [wait EXCEPT !.status = "polling",
                               !.elapsed = Later(@, d),
                               !.since_change = Later(@, d),
                               !.quiet = Later(@, d)]
    /\ UNCHANGED <<files, style, call, report, extracted, formatVars, status, phase, run>>

\* a research agent writes a findings file while the system waits; quiet is
\* the time since the directory last changed
FindingsAppear ==
    /\ wait.status \in {"polling", "sleeping"}
    /\ Cardinality(files) < MaxFiles
    /\ \E b \in BatchPool \ files : files' = files \cup {b}
    /\ wait' = [wait EXCEPT !.quiet = 0]
    /\ UNCHANGED <<style, call, report, extracted, formatVars, status, phase, run>>

NextAwait == StartAwait \/ DoPoll \/ DoWake \/ FindingsAppear

\* the event loop runs the coroutine whenever it can run, and ends its sleep
SpecAwait == Init /\ [][NextAwait]_vars /\ WF_vars(DoPoll) /\ WF_vars(DoWake)

(***************************************************************************)
(* ResearchSystem.research: one step per phase of the try block.           *)
(***************************************************************************)
\* the phases in the order the method enters them, the last being the call
\* of get_research_status that follows the save
Phases == <<"tooling", "research", "await", "postprocess", "synthesis",
            "citation", "save", "metrics">>

\* lines 303-308: the call starts
ResearchStart ==
    [status |-> "running", pc |-> 1, entered |-> <<>>, synthesis |-> <<>>,
     final_report |-> <<>>, reports |-> <<>>, errors |-> 0, out |-> <<>>]

\* the phase at hand ends and the next one is at hand
Advance(r) == [r EXCEPT !.pc = @ + 1, !.entered = Append(@, Phases[r.pc])]

\* lines 353-361: an exception leaves the try block; the error file is
\* written and the exception raised again
Fail(r) ==
    [r EXCEPT !.status = "raised", !.entered = Append(@, Phases[r.pc]),
              !.errors = @ + 1]

\* transcript tokens _sanitize_text looks for
Forbidden == {<<"S","y","s","t","e","m","M","e","s","s","a","g","e","(">>, <<"A","s","s","i","s","t","a","n","t","M","e","s","s","a","g","e","(">>, <<"T","o","o","l","U","s","e","B","l","o","c","k","(">>, <<"R","e","s","u","l","t","M","e","s","s","a","g","e","(">>, <<"U","s","e","r","M","e","s","s","a","g","e","(">>}

\* _sanitize_text(text)
SanitizeText(text) ==
    Join(SelectSeq(Splitlines(text),
                   LAMBDA ln : ~\E tok \in Forbidden : Contains(ln, tok)),
         <<"\n">>)

\* what the synthesis query can answer
LeakedLine == <<"U","s","e","r","M","e","s","s","a","g","e","(","x",")","\n">>
SynthesisTexts == {SentenceOne, HeadingLine \o SentenceOne, LeakedLine \o SentenceTwo}

\* the directories the research agents can leave behind
FindingsDirs == {S \in SUBSET StatusPool : Cardinality(S) <= MaxFiles}

\* await system.research(query) is entered
StartResearch ==
    /\ run = NotCalled
    /\ files = {}
    /\ run' = ResearchStart
    /\ UNCHANGED <<files, style, call, report, extracted, formatVars, status, phase, wait>>

\* _check_tooling: the query to the SDK answers or raises
DoCheckTooling ==
    /\ run.status = "running" /\ Phases[run.pc] = "tooling"
    /\ \E answered \in BOOLEAN : run' = IF answered THEN Advance(run) ELSE Fail(run)
    /\ UNCHANGED <<files, style, call, report, extracted, formatVars, status, phase, wait>>

\* _execute_research_phase: the agents write their findings files, or the
\* query raises
DoResearchPhase ==
    /\ run.status = "running" /\ Phases[run.pc] = "research"
    /\ \/ \E written \in FindingsDirs : files' = written /\ run' = Advance(run)
       \/ files' = files /\ run' = Fail(run)
    /\ UNCHANGED <<style, call, report, extracted, formatVars, status, phase, wait>>

\* _await_findings, then _postprocess_findings and _emit_phase1_summary,
\* which catch what they raise and leave the findings files as they are
DoAwaitFindings ==
    /\ run.status = "running" /\ Phases[run.pc] = "await"
    /\ run' = Advance(run)
    /\ UNCHANGED <<files, style, call, report, extracted, formatVars, status, phase, wait>>

DoPostprocess ==
    /\ run.status = "running" /\ Phases[run.pc] = "postprocess"
    /\ run' = Advance(run)
    /\ UNCHANGED <<files, style, call, report, extracted, formatVars, status, phase, wait>>

\* _execute_synthesis_phase: the synthesis the SDK answers, or an exception
DoSynthesis ==
    /\ run.status = "running" /\ Phases[run.pc] = "synthesis"
    /\ \/ \E text \in SynthesisTexts : run' = [Advance(run) EXCEPT !.synthesis = text]
       \/ run' = Fail(run)
    /\ UNCHANGED <<files, style, call, report, extracted, formatVars, status, phase, wait>>

\* _execute_citation_phase and _sanitize_text
DoCitation ==
    /\ run.status = "running" /\ Phases[run.pc] = "citation"
    /\ \E loaded \in LoaderOutcomes, agent_result \in AgentResults :
          LET cited == ExecuteCitationPhase(
                           run.synthesis,
                           CallOutcome(run.synthesis, DefaultMinCredibility, loaded),
                           agent_result)
          IN  run' = IF cited.status = "raised" THEN Fail(run)
                     ELSE [Advance(run) EXCEPT !.final_report = SanitizeText(cited.out)]
    /\ UNCHANGED <<files, style, call, report, extracted, formatVars, status, phase, wait>>

\* lines 339-341: the report file is written
DoSave ==
    /\ run.status = "running" /\ Phases[run.pc] = "save"
    /\ run' = [Advance(run) EXCEPT !.reports = Append(@, run.final_report)]
    /\ UNCHANGED <<files, style, call, report, extracted, formatVars, status, phase, wait>>

\* lines 346-351: get_research_status, the prints and the return
DoMetrics ==
    /\ run.status = "running" /\ Phases[run.pc] = "metrics"
    /\ \E order \in Orderings(files) :
          LET metrics == GetResearchStatus(order)
          IN  /\ status' = metrics
              /\ run' = IF metrics.status = "raised" THEN Fail(run)
                        ELSE [run EXCEPT !.status = "returned",
                                         !.entered = Append(@, Phases[run.pc]),
                                         !.out = run.final_report]
    /\ UNCHANGED <<files, style, call, report, extracted, formatVars, phase, wait>>

NextResearch ==
    \/ StartResearch
    \/ DoCheckTooling
    \/ DoResearchPhase
    \/ DoAwaitFindings
    \/ DoPostprocess
    \/ DoSynthesis
    \/ DoCitation
    \/ DoSave
    \/ DoMetrics

SpecResearch == Init /\ [][NextResearch]_vars

(***************************************************************************)
(* Vocabulary of the properties.                                           *)
(***************************************************************************)
\* apply_citations has returned
Returned == call.status = "returned"

\* the cited sources' ids, and the Source object of an id
CitedIds == {c.source_id : c \in Range(call.cited_sources)}
SourceOf(id) == call.sources[IndexOf(call.sources, id)]

\* the sources that passed the credibility filter of the call
Eligible == {src \in Range(call.sources) : src.credibility_score >= call.min_credibility}

\* validate_citations has been run on the text that the call returned
Validated == Returned /\ report /= NoReport /\ report.text = call.out

\* the numbers that the messages of a report name
NumbersOf(messages) == {messages[i].number : i \in 1..Len(messages)}

\* the numbers that occur in brackets in a string
BracketedNumbers(t) == {StrToNum(m) : m \in Range(FindAllMarkers(t))}

\* the inline marker of citation number n
Marker(n) == <<" ">> \o Bracketed(n)

\* comparison of two source ids as Python compares strings
HexChars == <<"0","1","2","3","4","5","6","7","8","9","a","b","c","d","e","f">>
HexVal(c) == CHOOSE i \in 1..16 : HexChars[i] = c
IdLess(a, b) ==
    \E i \in 1..8 : HexVal(a[i]) < HexVal(b[i]) /\ \A j \in 1..(i - 1) : a[j] = b[j]

\* the references section of the returned text, after its heading
ReferenceSection ==
    SubSeq(call.out, Len(call.modified_text) + Len(References) + 1, Len(call.out))

RECURSIVE UndoInsertions(_, _, _)
\* t without the markers that citations_added[1..i] record, the latest first;
\* a marker is recorded at position + len(quote) of the text as it was when it
\* was inserted (the logged quotes are whole: none exceeds QuoteLogLen)
UndoInsertions(t, added, i) ==
    IF i = 0 THEN t
    ELSE LET at == added[i].position + Len(added[i].quote)
             marker == Marker(added[i].citation_number)
         IN  IF SubSeq(t, at + 1, at + Len(marker)) /= marker THEN <<"?">>
             ELSE UndoInsertions(SubSeq(t, 1, at) \o SubSeq(t, at + Len(marker) + 1, Len(t)),
                                 added, i - 1)

(***************************************************************************)
(* C1                                                                      *)
(***************************************************************************)
\* C1 as stated: when apply_citations cited at least one source,
\* validate_citations on the returned text reports no error.
C1_RoundTripNoErrors ==
    (Validated /\ call.cited_sources /= <<>>) => report.errors = <<>>

\* C1 amended: when apply_citations cited k >= 1 sources, validate_citations on
\* the returned text reports no error for any of the inserted numbers 1..k, and
\* every number it reports an error for was already in brackets in the input
\* text or in the title or locator of a cited source.
C1_InsertedMarkersHaveReferences ==
    (Validated /\ call.cited_sources /= <<>>) =>
        /\ NumbersOf(report.errors) \cap (1..Len(call.cited_sources)) = {}
        /\ NumbersOf(report.errors) \subseteq
              BracketedNumbers(call.text) \cup
              UNION {BracketedNumbers(SourceOf(id).title) \cup BracketedNumbers(SourceOf(id).url) :
                        id \in CitedIds}

\* C1 witness: two sources cited in a text that held a marker of its own, and
\* the returned text validated
C1_Witness ==
    /\ Validated
    /\ Len(call.cited_sources) >= 2
    /\ report.errors /= <<>>

(***************************************************************************)
(* C2                                                                      *)
(***************************************************************************)
\* C2: in one apply_citations call every source gets at most one citation
\* number and at most one inserted marker: citations_added has one entry per
\* cited source, and the working text grew by exactly one marker per cited
\* source.
C2_OneMarkerPerSource ==
    Returned =>
        /\ \A i, j \in 1..Len(call.citations_added) :
              call.citations_added[i].source_id = call.citations_added[j].source_id => i = j
        /\ {m.source_id : m \in Range(call.citations_added)} = CitedIds
        /\ \A m \in Range(call.citations_added) :
              NumberOf(call.cited_sources, m.source_id) = m.citation_number
        /\ Len(call.modified_text) = Len(call.text) +
              Len(Concat([n \in 1..Len(call.cited_sources) |->
                              Marker(call.cited_sources[n].number)]))

\* C2 witness: a cited source two of whose quotes occur in the input text
C2_Witness ==
    /\ Returned
    /\ \E id \in CitedIds :
          Cardinality({q \in Range(SourceOf(id).relevant_quotes) :
                          QuoteLongEnough(q) /\ Contains(call.text, q)}) >= 2

(***************************************************************************)
(* C3                                                                      *)
(***************************************************************************)
\* C3: the cited sources get exactly the numbers 1..k, each once, in the
\* order they were cited, and a cited source of higher credibility has the
\* smaller number.
C3_NumberingByCredibility ==
    Returned =>
        /\ \A n \in 1..Len(call.cited_sources) : call.cited_sources[n].number = n
        /\ \A n \in 1..Len(call.citations_added) : call.citations_added[n].citation_number = n
        /\ \A a, b \in CitedIds :
              SourceOf(a).credibility_score > SourceOf(b).credibility_score
                  => NumberOf(call.cited_sources, a) < NumberOf(call.cited_sources, b)

\* C3 witness: two cited sources of different credibility, the less credible
\* one anchored earlier in the text
C3_Witness ==
    /\ Returned
    /\ \E m1, m2 \in Range(call.citations_added) :
          /\ SourceOf(m1.source_id).credibility_score > SourceOf(m2.source_id).credibility_score
          /\ m2.position < m1.position
          /\ m1.citation_number < m2.citation_number

(***************************************************************************)
(* C4                                                                      *)
(***************************************************************************)
\* C4: a second apply_citations call on the same text, threshold and findings
\* files returns the same string as the first.
C4_Deterministic ==
    [][(/\ call.status = "returned"
        /\ call'.status = "returned"
        /\ files' = files
        /\ style' = style
        /\ call'.text = call.text
        /\ call'.min_credibility = call.min_credibility)
          => call'.out = call.out]_vars

(***************************************************************************)
(* C5                                                                      *)
(***************************************************************************)
\* C5: of two cited sources of equal credibility, the one whose identifier
\* string is smaller has the smaller citation number.
C5_TieBreakByIdentifier ==
    Returned =>
        \A a, b \in CitedIds :
            (/\ SourceOf(a).credibility_score = SourceOf(b).credibility_score
             /\ IdLess(a, b))
                => NumberOf(call.cited_sources, a) < NumberOf(call.cited_sources, b)

(***************************************************************************)
(* C6                                                                      *)
(***************************************************************************)
\* C6: when apply_citations cites no source, it returns the input text as it
\* is, with no reference section.
C6_NoCitationNoChange ==
    (Returned /\ call.cited_sources = <<>>) =>
        /\ call.out = call.text
        /\ call.modified_text = call.text
        /\ ~Contains(call.out, References)

\* C6 witness: sources pass the credibility filter, none of their quotes
\* occurs in the (non-empty) text, and nothing is cited
C6_Witness ==
    /\ Returned
    /\ call.cited_sources = <<>>
    /\ Eligible /= {}
    /\ Len(call.text) > 0

(***************************************************************************)
(* C7                                                                      *)
(***************************************************************************)
\* C7: the returned text is the working text followed, when a source was
\* cited, by the references heading and the reference list; taking the
\* inserted markers out of the working text gives the input text.
C7_TextFidelity ==
    Returned =>
        /\ SubSeq(call.out, 1, Len(call.modified_text)) = call.modified_text
        /\ call.cited_sources = <<>> => call.out = call.modified_text
        /\ call.cited_sources /= <<>> =>
              SubSeq(call.out, Len(call.modified_text) + 1,
                     Len(call.modified_text) + Len(References)) = References
        /\ UndoInsertions(call.modified_text, call.citations_added,
                          Len(call.citations_added)) = call.text

\* C7 witness: two markers inserted, the second one before the first, in a
\* text where the first anchoring quote occurs twice
C7_Witness ==
    /\ Returned
    /\ Len(call.citations_added) = 2
    /\ call.citations_added[2].position < call.citations_added[1].position

(***************************************************************************)
(* C8                                                                      *)
(***************************************************************************)
\* C8: when k >= 1 sources were cited, the reference section has exactly k
\* lines; line n is the formatted reference of the source numbered n; a source
\* that no quote matched has no number and no line.
C8_ReferenceSection ==
    (Returned /\ call.cited_sources /= <<>>) =>
        LET lines == SplitOn(ReferenceSection, "\n")
        IN  /\ Len(lines) = Len(call.cited_sources)
            /\ \A n \in 1..Len(lines) :
                  \E id \in CitedIds :
                      /\ NumberOf(call.cited_sources, id) = n
                      /\ lines[n] = FormatReference(style, SourceOf(id), n)
            /\ \A src \in Range(call.sources) :
                  (\A m \in Range(call.citations_added) : m.source_id /= src.source_id) =>
                      /\ NumberOf(call.cited_sources, src.source_id) = 0
                      /\ \A n \in 1..Len(lines) :
                            lines[n] /= FormatReference(style, src, n)

\* C8 witness: two sources cited, a third one eligible and not cited
C8_Witness ==
    /\ Returned
    /\ Len(call.cited_sources) = 2
    /\ \E src \in Eligible : src.source_id \notin CitedIds

(***************************************************************************)
(* C9                                                                      *)
(***************************************************************************)
\* C9: every cited source has a quote of trimmed length >= 10 that occurs in
\* the input text.
C9_GroundedInInputText ==
    Returned =>
        \A id \in CitedIds :
            \E q \in Range(SourceOf(id).relevant_quotes) :
                Len(Strip(q)) >= MinQuoteLen /\ Contains(call.text, q)

(***************************************************************************)
(* C10                                                                     *)
(***************************************************************************)
\* C10: no citation is anchored on a quote whose trimmed length is below 10,
\* and a source all of whose quotes are that short is not cited.
C10_ShortQuotesNeverAnchor ==
    Returned =>
        /\ \A m \in Range(call.citations_added) : Len(Strip(m.quote)) >= MinQuoteLen
        /\ \A src \in Range(call.sources) :
              (\A q \in Range(src.relevant_quotes) : Len(Strip(q)) < MinQuoteLen)
                  => src.source_id \notin CitedIds

\* C10 witness: an eligible source whose quotes are all short, two of them
\* occurring in the text (one of 10 characters before trimming), is not cited
\* while another source is
C10_Witness ==
    /\ Returned
    /\ call.cited_sources /= <<>>
    /\ \E src \in Eligible :
          /\ src.source_id \notin CitedIds
          /\ \A q \in Range(src.relevant_quotes) : Len(Strip(q)) < MinQuoteLen
          /\ \E q \in Range(src.relevant_quotes) : Len(q) >= MinQuoteLen /\ Contains(call.text, q)
          /\ \E q \in Range(src.relevant_quotes) : Len(q) < MinQuoteLen /\ Contains(call.text, q)

(***************************************************************************)
(* Vocabulary of the loader's properties.                                  *)
(***************************************************************************)
\* extract_all_sources has been called; it has returned a map
ExtractCalled == extracted /= NoExtract
Extracted == extracted.status = "returned"

\* the entries of a findings file
EntriesOf(b) == {b.sources[i] : i \in 1..Len(b.sources)}

\* a file that holds a JSON object whose entries all carry these fields
Carries(b, fields) == b.kind = "object" /\ \A e \in EntriesOf(b) : fields \subseteq e.keys

\* the quotes of an entry
QuotesOf(e) == Range(Get(e, "relevant_quotes", <<>>))

RECURSIVE Seen(_, _, _, _)
\* the entries that the loader gets to and keeps, in the order in which it gets
\* to them, from entry i of file b of the glob order on: a file is left at the
\* entry that has no locator, or that names a source not yet in `known` and
\* lacks the title or the timestamp
Seen(order, b, i, known) ==
    IF b > Len(order) THEN <<>>
    ELSE IF order[b].kind /= "object" \/ i > Len(order[b].sources)
    THEN Seen(order, b + 1, 1, known)
    ELSE LET e == order[b].sources[i]
         IN  IF "url" \notin e.keys
                \/ (e.url \notin known /\ ~({"title", "timestamp"} \subseteq e.keys))
             THEN Seen(order, b + 1, 1, known)
             ELSE <<e>> \o Seen(order, b, i + 1, known \cup {e.url})

\* the entries about the source at this locator, in the order they were loaded
SeenAbout(url) == SelectSeq(Seen(extracted.order, 1, 1, {}), LAMBDA e : e.url = url)

(***************************************************************************)
(* C11: partial-failure tolerance of the loader.  Whatever the findings    *)
(* files hold (text that is not JSON, JSON of another structure, entries   *)
(* with a field missing), extract_all_sources returns normally, and every  *)
(* source of every well-formed file is in the map it returns.  A file      *)
(* whose entries carry the locator, the title and the timestamp is         *)
(* well-formed under every reading of "required field".                    *)
(***************************************************************************)
C11_LoaderNeverAborts ==
    ExtractCalled =>
        /\ extracted.status = "returned"
        /\ \A b \in files :
              Carries(b, {"url", "title", "timestamp"}) =>
                 \A e \in EntriesOf(b) :
                    \E src \in Range(extracted.sources) : src.url = e.url

(***************************************************************************)
(* C12: a file is skipped as a whole.  When an entry of a file lacks the   *)
(* locator or the title, the file contributes nothing to the returned map, *)
(* the entries before the bad one included: every source of the map, and   *)
(* every quote of it, comes from a file that has no such entry.            *)
(***************************************************************************)
C12_BatchSkippedAsAWhole ==
    Extracted =>
        \A src \in Range(extracted.sources) :
           LET from == {e \in UNION {EntriesOf(b) :
                                        b \in {f \in files : Carries(f, {"url", "title"})}} :
                           e.url = src.url}
           IN  /\ from /= {}
               /\ Range(src.relevant_quotes) \subseteq UNION {QuotesOf(e) : e \in from}

(***************************************************************************)
(* C13: optional fields.  An entry that has the locator and the title is   *)
(* accepted whatever else it lacks: when all entries of a file have both,  *)
(* each of them has its source in the returned map, and an entry that is   *)
(* alone about its source and has nothing but the two fields gives         *)
(* credibility 0.5, kind "unknown" and no quotes.                          *)
(***************************************************************************)
C13_OptionalFieldsDefaulted ==
    Extracted =>
        \A b \in {f \in files : Carries(f, {"url", "title"})} :
           \A e \in EntriesOf(b) :
              \E src \in Range(extracted.sources) :
                 /\ src.url = e.url
                 /\ (e.keys = {"url", "title"}
                       /\ \A f \in files : \A o \in EntriesOf(f) : o.url = e.url => o = e)
                    => /\ src.title = e.title
                       /\ src.credibility_score = DefaultCredibility
                       /\ src.source_type = "unknown"
                       /\ src.relevant_quotes = <<>>

(***************************************************************************)
(* C14: merge policy.  The map has one source per locator.  Its title,     *)
(* timestamp, credibility, kind and access date are those of the first     *)
(* entry loaded about it, and when several entries were loaded about it    *)
(* its quotes are the union of their quote lists, each quote once.         *)
(***************************************************************************)
C14_MergePolicy ==
    Extracted =>
        /\ \A i, j \in 1..Len(extracted.sources) :
              extracted.sources[i].url = extracted.sources[j].url => i = j
        /\ \A src \in Range(extracted.sources) :
              LET es == SeenAbout(src.url)
              IN  /\ Len(es) >= 1
                  /\ src.title = es[1].title
                  /\ src.timestamp = es[1].timestamp
                  /\ src.credibility_score = Get(es[1], "credibility_score", DefaultCredibility)
                  /\ src.source_type = Get(es[1], "source_type", "unknown")
                  /\ src.access_date = Get(es[1], "access_date", "")
                  /\ Len(es) = 1 => src.relevant_quotes = Get(es[1], "relevant_quotes", <<>>)
                  /\ Len(es) > 1 =>
                        /\ Range(src.relevant_quotes) = UNION {QuotesOf(es[n]) : n \in 1..Len(es)}
                        /\ Cardinality(Range(src.relevant_quotes)) = Len(src.relevant_quotes)

\* two entries were loaded about one source, with different titles and
\* credibilities and a quote in common
C14_Witness ==
    /\ Extracted
    /\ \E src \in Range(extracted.sources) :
          LET es == SeenAbout(src.url)
          IN  /\ Len(es) >= 2
              /\ es[2].title /= es[1].title
              /\ es[2].credibility_score /= es[1].credibility_score
              /\ QuotesOf(es[1]) \cap QuotesOf(es[2]) /= {}
              /\ QuotesOf(es[2]) \ QuotesOf(es[1]) /= {}

(***************************************************************************)
(* Vocabulary of the validator's properties.  The body of a text is what   *)
(* precedes the heading of its references section, the whole text when it  *)
(* has none; an inline marker is a bracketed number in the body, and a     *)
(* reference line is a line after the heading that begins with a bracketed *)
(* number.                                                                 *)
(***************************************************************************)
\* validate_citations has been run
Reported == report /= NoReport

\* the offsets that the body of t takes
BodyOffsets(t) == IF Find(t, References) = 0 THEN 1..Len(t) ELSE 1..(Find(t, References) - 1)

\* the offsets of the inline markers, and of the numbers that begin reference lines
InlineOffsets(t) == MarkerOffsets(t) \cap BodyOffsets(t)
ReferenceOffsets(t) == {i \in MarkerOffsets(t) \ BodyOffsets(t) : t[i - 1] = "\n"}

\* the offsets of the bracketed numbers that begin a line, wherever the line is
LineStartOffsets(t) == {i \in MarkerOffsets(t) : i = 1 \/ t[i - 1] = "\n"}

\* the numbers written at a set of marker offsets, and the offsets of a number
NumbersAt(t, S) == {StrToNum(MarkerAt(t, i)) : i \in S}
OffsetsOf(t, S, n) == {i \in S : StrToNum(MarkerAt(t, i)) = n}

\* the messages of a kind that are about number n
MessagesAbout(messages, kind, n) ==
    {i \in 1..Len(messages) : messages[i].kind = kind /\ messages[i].number = n}

\* the pieces that splitting on the runs of terminators gives are numbered by
\* the runs that begin before them; the piece of offset i
RunStarts(t) ==
    {i \in 1..Len(t) : t[i] \in Terminators /\ (i = 1 \/ t[i - 1] \notin Terminators)}
PieceOf(t, i) == Cardinality({r \in RunStarts(t) : r < i})

C16_DeadReferenceWarned ==
    Reported =>
        LET t == report.text
        IN  \A n \in NumbersAt(t, ReferenceOffsets(t)) \ NumbersAt(t, InlineOffsets(t)) :
               Cardinality(MessagesAbout(report.warnings, "not_cited", n)) = 1

(***************************************************************************)
(* C17: duplicate warning.  The report has one "appears multiple times"    *)
(* warning for each number that more than one inline marker uses and none  *)
(* for any other number; so the text that apply_citations returns, where   *)
(* each number is inserted once, gets none for the numbers it inserted.    *)
(***************************************************************************)
C17_DuplicateWarned ==
    Reported =>
        LET t == report.text
        IN  \A n \in NumbersAt(t, MarkerOffsets(t)) \cup NumbersOf(report.warnings) :
               Cardinality(MessagesAbout(report.warnings, "multiple", n))
                  = IF Cardinality(OffsetsOf(t, InlineOffsets(t), n)) > 1 THEN 1 ELSE 0

(***************************************************************************)
(* C18: validator counts.  total_citations is the number of distinct       *)
(* numbers that inline markers use, total_sources the number of distinct   *)
(* numbers that begin a reference line; on the text that apply_citations   *)
(* returned after citing k sources both are k.                             *)
(***************************************************************************)
C18_Counts ==
    Reported =>
        LET t == report.text
        IN  /\ report.total_citations = Cardinality(NumbersAt(t, InlineOffsets(t)))
            /\ report.total_sources = Cardinality(NumbersAt(t, ReferenceOffsets(t)))
            /\ Validated =>
                  /\ report.total_citations = Len(call.cited_sources)
                  /\ report.total_sources = Len(call.cited_sources)

(***************************************************************************)
(* C19: coverage definition.  coverage_percentage is 100 times             *)
(* sentences_with_citations / total_sentences, where total_sentences is    *)
(* the number of pieces that splitting the text on the runs of '.', '!'    *)
(* and '?' gives and sentences_with_citations is the number of those       *)
(* pieces, the first one included, that hold a bracketed number.           *)
(***************************************************************************)
C19_CoverageDefinition ==
    Reported =>
        LET t == report.text
        IN  /\ report.total_sentences = Cardinality(RunStarts(t)) + 1
            /\ report.sentences_with_citations
                  = Cardinality({PieceOf(t, i) : i \in MarkerOffsets(t)})

(***************************************************************************)
(* C20: coverage bounds.  The pieces counted as cited are never more than  *)
(* the pieces, and there is at least one piece, so coverage_percentage     *)
(* (100 * sentences_with_citations / total_sentences) is within [0, 100].  *)
(***************************************************************************)
C20_CoverageBounds ==
    Reported =>
        /\ report.total_sentences >= 1
        /\ 0 <= report.sentences_with_citations
        /\ report.sentences_with_citations <= report.total_sentences
        /\ 100 * report.sentences_with_citations <= 100 * report.total_sentences

\* a text with as many markers as pieces, two of them in the one piece that
\* counts as cited
C20_Witness ==
    /\ Reported
    /\ report.sentences_with_citations >= 1
    /\ Cardinality(MarkerOffsets(report.text)) >= report.total_sentences
    /\ Cardinality(MarkerOffsets(report.text)) > report.sentences_with_citations

(***************************************************************************)
(* The semantic matcher: vocabulary of C21 and C22.                        *)
(***************************************************************************)
SemanticReturned == semantic.status = "returned"

\* the returned text before the heading of its reference section
SemanticBody ==
    LET p == Find(semantic.out, References)
    IN  IF p = 0 THEN semantic.out ELSE SubSeq(semantic.out, 1, p - 1)

\* the citation numbers the call assigned
AssignedNumbers == {c.number : c \in Range(semantic.cited_sources)}

\* the source that was given citation number n
SemanticSourceOf(n) ==
    LET id == (CHOOSE c \in Range(semantic.cited_sources) : c.number = n).source_id
    IN  semantic.sources[IndexOf(semantic.sources, id)]

\* the segment is one the matcher may cite with this source
Supports(source, segment) ==
    /\ Len(Strip(segment)) >= MinSentenceLen
    /\ IsFactual(segment)
    /\ WeightedScore(segment, source) > ScoreThreshold
    /\ \A other \in Range(semantic.sources) :
          WeightedScore(segment, other) <= WeightedScore(segment, source)

(***************************************************************************)
(* C21: the semantic matcher cites each source at most once.  In the text  *)
(* apply_semantic_citations returns, every citation number it assigned     *)
(* occurs exactly once in the body, also when a citable sentence occurs    *)
(* several times in the input.                                             *)
(***************************************************************************)
C21_EachNumberOnceInBody ==
    SemanticReturned =>
        \A n \in AssignedNumbers :
            Cardinality(Occurrences(Bracketed(n), SemanticBody)) = 1

(***************************************************************************)
(* C22: a marker is added to a segment only if the segment is at least 20  *)
(* characters long once trimmed, holds an indicator phrase, and the source *)
(* of the marker has the greatest credibility-weighted score for it, a     *)
(* score above 3.0; the marker is appended at the end of that segment.     *)
(* So every segment of the returned body is the segment of the input at    *)
(* the same place, alone or followed by the marker of a source that        *)
(* supports it.                                                            *)
(***************************************************************************)
C22_MarkerOnlyAtEndOfSupportedSegment ==
    SemanticReturned =>
        LET segments == SplitSentences(SemanticBody)
        IN  /\ Len(segments) = Len(semantic.sentences)
            /\ \A k \in 1..Len(segments) :
                  \/ segments[k] = semantic.sentences[k]
                  \/ \E n \in AssignedNumbers :
                        /\ segments[k] = semantic.sentences[k] \o Marker(n)
                        /\ Supports(SemanticSourceOf(n), semantic.sentences[k])

(***************************************************************************)
(* The reference formatter: vocabulary of C23, C24 and C25.                *)
(***************************************************************************)
\* the calls of _format_reference made so far
FormatCalls == Range(formatted)

\* the host of a locator of the form scheme://host/..., <<>> when it has none
HostOf(url) ==
    LET p == Find(url, <<":", "/", "/">>)
        rest == SubSeq(url, p + 3, Len(url))
        q == Find(rest, <<"/">>)
    IN  IF p = 0 THEN <<>>
        ELSE IF q = 0 THEN rest ELSE SubSeq(rest, 1, q - 1)

HasHost(url) == HostOf(url) /= <<>>

\* the '/'-separated pieces of the locator hold no third, non-empty piece
NoSitePiece(url) ==
    LET slashes == {i \in 1..Len(url) : url[i] = "/"}
    IN  \/ Cardinality(slashes) < 2
        \/ LET second == CHOOSE i \in slashes :
                            Cardinality({j \in slashes : j < i}) = 1
           IN  second = Len(url) \/ url[second + 1] = "/"

DateParses(c) == c.source.timestamp = TsGood
AccessParses(c) == c.source.access_date \in {AccessGood, AccessIso}

ApaDate == <<"(","2","0","2","4",","," ","J","a","n","u","a","r","y"," ","1","5",")">>
ChicagoDate == <<"J","a","n","u","a","r","y"," ","1","5",","," ","2","0","2","4">>
AccessedText == <<"A","c","c","e","s","s","e","d"," ","J","a","n","u","a","r","y"," ","2","0",","," ","2","0","2","4">>
NoDateText == <<"n",".","d",".">>

\* the date of a line as its style writes it
DateOf(c) ==
    IF c.style = "apa"
    THEN IF DateParses(c) THEN ApaDate ELSE <<"(">> \o NoDateText \o <<")">>
    ELSE IF DateParses(c) THEN ChicagoDate ELSE NoDateText

\* the line without its date segment
WithoutDate(c) ==
    LET segment == <<" ">> \o DateOf(c) \o <<".">>
        p == Find(c.out, segment)
    IN  IF p = 0 THEN c.out
        ELSE SubSeq(c.out, 1, p - 1) \o SubSeq(c.out, p + Len(segment), Len(c.out))

\* the line holds no site segment: the locator follows the date (apa,
\* generic) or the date follows the title (chicago)
NoSiteSegment(c) ==
    CASE c.style = "apa" ->
            Contains(c.out, DateOf(c) \o <<".", " ">> \o c.source.url \o <<".">>)
      [] c.style = "chicago" ->
            Contains(c.out, c.source.title \o <<".", " ">> \o DateOf(c) \o <<".", " ">>
                                \o c.source.url \o <<".">>)
      [] OTHER -> Contains(c.out, <<")", ".", " ">> \o c.source.url)

(***************************************************************************)
(* C23: style layouts.  For the same source and number the apa line has    *)
(* the date as "(Year, Month Day)" right after the title and the chicago   *)
(* line has it as "Month Day, Year" after the site; both hold the host of  *)
(* the locator, the literal URL and, when the access date parses,          *)
(* "Accessed Month Day, Year"; without their date segments the two lines   *)
(* are the same.                                                           *)
(***************************************************************************)
C23_StyleLayouts ==
    /\ \A c \in FormatCalls :
          c.style \in {"apa", "chicago"} =>
             /\ HasHost(c.source.url) => Contains(c.out, HostOf(c.source.url) \o <<".">>)
             /\ Contains(c.out, c.source.url)
             /\ AccessParses(c) => Contains(c.out, AccessedText)
             /\ c.style = "apa" /\ DateParses(c) =>
                   Contains(c.out, c.source.title \o <<".", " ">> \o ApaDate \o <<".">>)
             /\ c.style = "chicago" /\ DateParses(c) /\ HasHost(c.source.url) =>
                   Contains(c.out, HostOf(c.source.url) \o <<".", " ">>
                                      \o ChicagoDate \o <<".">>)
    /\ \A c, d \in FormatCalls :
          c.style = "apa" /\ d.style = "chicago" => WithoutDate(c) = WithoutDate(d)

\* one source rendered in both styles, with a host, a date and an access date
C23_Witness ==
    \E c, d \in FormatCalls :
        /\ c.style = "apa" /\ d.style = "chicago"
        /\ HasHost(c.source.url) /\ DateParses(c) /\ AccessParses(c)

(***************************************************************************)
(* C24: formatting degradation, as stated: a timestamp that does not parse *)
(* renders as "n.d.", a locator that does not parse omits the site         *)
(* segment, and the accessed segment is rendered if and only if the access *)
(* date is present and parses; it is never rendered as "n.d.".             *)
(***************************************************************************)
C24_Degradation ==
    \A c \in FormatCalls :
        /\ ~DateParses(c) => Contains(c.out, NoDateText)
        /\ NoSitePiece(c.source.url) => NoSiteSegment(c)
        /\ Contains(c.out, <<"A","c","c","e","s","s","e","d">>) <=> AccessParses(c)
        /\ DateParses(c) => ~Contains(c.out, NoDateText)

(***************************************************************************)
(* C24, amended: the same, the accessed segment being rendered if and only *)
(* if the style is apa or chicago and the access date is present and       *)
(* parses; the generic line never holds it.                                *)
(***************************************************************************)
C24_DegradationByStyle ==
    \A c \in FormatCalls :
        /\ ~DateParses(c) => Contains(c.out, NoDateText)
        /\ NoSitePiece(c.source.url) => NoSiteSegment(c)
        /\ Contains(c.out, <<"A","c","c","e","s","s","e","d">>)
              <=> (AccessParses(c) /\ c.style \in {"apa", "chicago"})
        /\ DateParses(c) => ~Contains(c.out, NoDateText)

\* a line whose date, locator and access date all fail to parse
C24_Witness ==
    \E c \in FormatCalls :
        /\ c.style = "chicago"
        /\ ~DateParses(c) /\ NoSitePiece(c.source.url)
        /\ c.source.access_date = AccessBad

\* the value the constructor was asked for: the argument, else the environment
RequestedStyle == IF ctor.style /= <<>> THEN ctor.style ELSE ctor.env

\* the style a requested value names, "apa" when it names none
StyleNamed(requested) ==
    IF \E st \in Styles : StyleName(st) = Lower(requested)
    THEN CHOOSE st \in Styles : StyleName(st) = Lower(requested)
    ELSE "apa"

(***************************************************************************)
(* C25: style selection, as stated: the effective style is one of apa,     *)
(* chicago, generic; it is the lower-cased requested value when that is    *)
(* one of the three (the argument before the CITATION_STYLE value), and    *)
(* apa for any other or missing value.                                     *)
(***************************************************************************)
C25_StyleSelection ==
    /\ style \in Styles
    /\ style = StyleNamed(RequestedStyle)

(***************************************************************************)
(* C25, amended: the same, the CITATION_STYLE value being also stripped of *)
(* the whitespace around it before it is compared.                         *)
(***************************************************************************)
C25_StyleSelectionEnvStripped ==
    /\ style \in Styles
    /\ style = StyleNamed(IF ctor.style /= <<>> THEN ctor.style ELSE Strip(ctor.env))

\* an engine constructed without an argument while the environment names a
\* style between spaces
C25_Witness ==
    /\ ctor.style = <<>>
    /\ ctor.env = <<" ","g","e","n","e","r","i","c"," ">>
    /\ style = "generic"

(***************************************************************************)
(* The research system: vocabulary of C26.                                 *)
(***************************************************************************)
StatusCalled == status.status /= "none"

\* the length of the "sources" list of a findings file, 0 when the file
\* holds none
SourcesListed(f) ==
    IF f.kind = "object" /\ "sources" \in f.keys THEN Len(f.sources) ELSE 0

RECURSIVE SourcesListedIn(_)
\* the sum of SourcesListed over a set of files
SourcesListedIn(S) ==
    IF S = {} THEN 0
    ELSE LET f == CHOOSE x \in S : TRUE
         IN  SourcesListed(f) + SourcesListedIn(S \ {f})

(***************************************************************************)
(* C26: get_research_status returns, with active_research_areas the number *)
(* of findings files and total_sources the sum of the lengths of the       *)
(* sources lists of the files that parse; a file that does not parse adds  *)
(* nothing and does not make the call fail.                                *)
(***************************************************************************)
C26_StatusCounts ==
    StatusCalled =>
        /\ status.status = "returned"
        /\ status.active_research_areas = Cardinality(files)
        /\ status.total_sources = SourcesListedIn(files)

(***************************************************************************)
(* The citation phase: vocabulary of C27 and C28.                          *)
(***************************************************************************)
PhaseReturned == phase.status = "returned"

\* the number of sources apply_citations cited in the phase
PhaseCited == Len(phase.programmatic.cited_sources)

\* the two count lines of a Citation Summary
SummaryCounts(citations, sources) ==
    <<"a","d","d","e","d",":"," ">> \o NumToStr(citations)
    \o <<"\n","-"," ","T","o","t","a","l"," ","s","o","u","r","c","e","s"," ",
         "r","e","f","e","r","e","n","c","e","d",":"," ">> \o NumToStr(sources)
    \o <<"\n">>

(***************************************************************************)
(* C27: _execute_citation_phase returns the programmatic result if and     *)
(* only if apply_citations cited at least one source; when no quote        *)
(* matched, the citations agent is queried, whatever the synthesis text    *)
(* holds.                                                                  *)
(***************************************************************************)
C27_AgentQueriedIffNothingCited ==
    PhaseReturned =>
        /\ phase.path = "programmatic" <=> PhaseCited >= 1
        /\ phase.queried <=> PhaseCited = 0

(***************************************************************************)
(* C28: when apply_citations cited k >= 1 sources, the validation of the   *)
(* text with its references normalized finds k reference numbers and no    *)
(* error, and the Citation Summary reports k citations and k sources.      *)
(***************************************************************************)
C28_SummaryCountsCitedSources ==
    PhaseReturned /\ PhaseCited >= 1 =>
        /\ phase.summary.total_sources = PhaseCited
        /\ phase.summary.errors = <<>>
        /\ phase.summary.total_citations = PhaseCited
        /\ Contains(phase.out, SummaryCounts(PhaseCited, PhaseCited))

(***************************************************************************)
(* The wait for findings: vocabulary of C29.                               *)
(***************************************************************************)
Waiting == wait.status \in {"polling", "sleeping"}
AwaitReturned == wait.status = "returned"

\* the directory holds enough files and has not changed for the idle time
Settled ==
    /\ Cardinality(files) >= wait.min_files
    /\ AtLeast(wait.quiet, wait.idle_secs)

\* more than the timeout has passed since the call started
TimedOut == MoreThan(wait.elapsed, wait.timeout_secs)

(***************************************************************************)
(* C29: _await_findings always returns, and only when the directory holds  *)
(* at least min_files files and has been unchanged for idle_secs, or when  *)
(* more than timeout_secs have passed; with no file ever appearing it      *)
(* returns after the timeout.                                              *)
(***************************************************************************)
C29_AwaitReturns ==
    /\ [](AwaitReturned => Settled \/ TimedOut)
    /\ [](AwaitReturned /\ files = {} => TimedOut)
    /\ (Waiting ~> AwaitReturned)

(***************************************************************************)
(* C29, amended: the same for a finite timeout_secs; with an infinite one  *)
(* the call returns only once the directory has settled.                   *)
(***************************************************************************)
C29_AwaitReturnsFiniteTimeout ==
    /\ [](AwaitReturned => Settled \/ TimedOut)
    /\ [](AwaitReturned /\ files = {} => TimedOut)
    /\ ((Waiting /\ wait.timeout_secs /= Infinite) ~> AwaitReturned)

\* the call has returned on its timeout, no file having appeared
C29_Witness ==
    /\ AwaitReturned
    /\ files = {}
    /\ wait.returned_by = "timeout"

(***************************************************************************)
(* The research run: vocabulary of C30.                                    *)
(***************************************************************************)
ResearchReturned == run.status = "returned"
ResearchRaised == run.status = "raised"

\* the phases the claim names, in its order
ClaimedOrder == <<"tooling", "research", "await", "postprocess", "synthesis",
                  "citation", "save">>

\* the phases the run has entered, of those the claim names
EnteredClaimed == SelectSeq(run.entered, LAMBDA ph : ph \in Range(ClaimedOrder))

(***************************************************************************)
(* C30: research() enters its phases in the order tool check, research,    *)
(* wait for findings, post-process, synthesis, citation, save.  If it      *)
(* raises, an error file was written and no report file was written in     *)
(* that run; if it returns, exactly one report file was written and it     *)
(* holds the returned string.                                              *)
(***************************************************************************)
C30_ResearchOutcome ==
    run.status /= "none" =>
        /\ EnteredClaimed = SubSeq(ClaimedOrder, 1, Len(EnteredClaimed))
        /\ ResearchRaised => run.errors = 1 /\ run.reports = <<>>
        /\ ResearchReturned => run.reports = <<run.out>>
====
